------------------------------ MODULE Optiboot ------------------------------
(***************************************************************************)
(* The bootloader of the Uno, bootloaders/optiboot/optiboot.c, with the    *)
(* flash it programs, the watchdog and the reset logic.                    *)
(*                                                                         *)
(* A character is what it stands for at its place: a command, a page, a    *)
(* length, a word of data, CRC_EOP or not.  The host sends any of them, or *)
(* noise with a framing error, or nothing, and may reset the board at any  *)
(* time.  It loads an address before each page command and sends no more   *)
(* than a page: the bootloader checks neither.                             *)
(*                                                                         *)
(* The flash, its page buffer, the watchdog and MCUSR are external.  Below *)
(* NRWWSTART an erase or a write runs while the code goes on; above it the *)
(* processor waits for it.  A word stands for two bytes.                   *)
(***************************************************************************)
EXTENDS Integers, Sequences

CONSTANTS
  Pages,       \* the pages of the sketch
  NRWW,        \* those from NRWWSTART on
  PageSize,    \* words: SPM_PAGESIZE / 2
  Data,        \* what a word may hold
  Erased, Ruined, NoPage

ASSUME OptibootAssumption ==
  /\ NRWW \subseteq Pages /\ PageSize \in Nat \ {0}
  /\ Erased # Ruined /\ {Erased, Ruined} \cap Data = {} /\ NoPage \notin Pages

VARIABLES
  flash, fill,      \* the pages; the page buffer of the hardware
  spm, rww,         \* the operation under way; may the RWW section be read?
  mcusr, wdt, fed,  \* the reset flags; WDE; reset since the last half period
  mode,             \* "boot" or "app"
  pc, cmd, address, length, buff, i,   \* the bootloader's registers and buffer
  \* history
  sent,             \* the words of the page the host is sending
  image,            \* what was last acknowledged of each page
  suspect,          \* pages whose programming has begun and not ended
  told              \* the other half of the time since the host last acted

memory == <<flash, fill, spm, rww>>
reset == <<mcusr, wdt>>
boot == <<pc, cmd, address, length, buff, i>>
history == <<sent, image, suspect>>
vars == <<memory, reset, fed, mode, boot, history, told>>

Word == 0 .. PageSize - 1
Blank == [w \in Word |-> Erased]
Waiting == mode = "boot" /\ pc \in {"command", "address", "length", "data", "eop"}

-----------------------------------------------------------------------------
(* The hardware.                                                           *)

\* A write can only clear bits: a page not erased before is ruined.
Written(p) == [w \in Word |->
  CASE fill[w] = Erased -> flash[p][w]
    [] flash[p][w] = Erased -> fill[w]
    [] OTHER -> Ruined]

Finished(op, p) ==
  flash' = [flash EXCEPT ![p] = IF op = "erase" THEN Blank ELSE Written(p)]

\* The SPM instruction: the processor waits if the page is in the NRWW section.
Spm(op, p) ==
  IF p \in NRWW
    THEN /\ Finished(op, p) /\ UNCHANGED <<spm, rww>>
         /\ fill' = IF op = "write" THEN Blank ELSE fill
    ELSE /\ spm' = [op |-> op, page |-> p] /\ rww' = FALSE
         /\ UNCHANGED <<flash, fill>>

Ready == spm.op = "none"

SpmDone ==
  /\ ~Ready /\ Finished(spm.op, spm.page)
  /\ spm' = [op |-> "none", page |-> NoPage]
  /\ fill' = IF spm.op = "write" THEN Blank ELSE fill
  /\ UNCHANGED <<rww, reset, fed, mode, boot, history, told>>

\* A reset ruins the page being erased or written.
Restart(cause) ==
  /\ mcusr' = mcusr \cup {cause} /\ mode' = "boot"
  /\ flash' = IF Ready THEN flash
                ELSE [flash EXCEPT ![spm.page] = [w \in Word |-> Ruined]]
  /\ spm' = [op |-> "none", page |-> NoPage] /\ fill' = Blank /\ rww' = TRUE
  /\ pc' = "start" /\ cmd' = "none" /\ address' = NoPage /\ length' = 0
  /\ i' = 0 /\ fed' = TRUE /\ sent' = <<>>
  /\ UNCHANGED <<buff, image, suspect>>

\* The watchdog is too slow only for the first instructions after a reset.  It
\* stays on until WDRF is cleared.
WatchdogFires ==
  /\ wdt /\ ~fed /\ pc \notin {"start", "config", "appStart"}
  /\ Restart("WDRF") /\ UNCHANGED <<wdt, told>>

HalfPeriod ==
  /\ wdt /\ fed /\ fed' = FALSE
  /\ UNCHANGED <<memory, reset, mode, boot, history, told>>

\* The host pulls the reset line.
ExternalReset == Restart("EXTRF") /\ wdt' = FALSE /\ told' = ~told

WatchdogConfig(on) == wdt' = (on \/ "WDRF" \in mcusr)

-----------------------------------------------------------------------------
(* Reset and the commands.                                                 *)

\* MCUSR is saved and cleared before anything else.
Cleared == {}

ReadMcusr ==
  /\ pc = "start" /\ mode = "boot" /\ mcusr' = Cleared
  /\ pc' = IF "EXTRF" \in mcusr THEN "config" ELSE "appStart"
  /\ UNCHANGED <<memory, wdt, fed, mode, cmd, address, length, buff, i, history,
                 told>>

AppStart ==
  /\ pc = "appStart" /\ WatchdogConfig(FALSE) /\ mode' = "app" /\ pc' = "app"
  /\ UNCHANGED <<memory, mcusr, fed, cmd, address, length, buff, i, history,
                 told>>

Config ==
  /\ pc = "config" /\ WatchdogConfig(TRUE) /\ pc' = "command"
  /\ UNCHANGED <<memory, mcusr, fed, mode, cmd, address, length, buff, i, history,
                 told>>

\* getch(): a character without a framing error resets the watchdog.
Feeds_Always(good) == TRUE
Feeds(good) == good

Getch(good) == Waiting /\ fed' = (fed \/ Feeds(good)) /\ told' = (told # good)

Command(c, good) ==
  /\ Getch(good) /\ pc = "command"
  /\ c \in {"prog", "read"} => address # NoPage
  /\ cmd' = c
  /\ pc' = CASE c = "load" -> "address" [] c = "other" -> "eop" [] OTHER -> "length"
  /\ UNCHANGED <<memory, reset, mode, address, length, buff, i, history>>

LoadAddress(p, good) ==
  /\ Getch(good) /\ pc = "address" /\ address' = p /\ pc' = "eop"
  /\ UNCHANGED <<memory, reset, mode, cmd, length, buff, i, history>>

\* "If we are in RWW section, immediately start page erase".
ErasesFirst == address \notin NRWW

Length(k, good) ==
  /\ Getch(good) /\ pc = "length" /\ length' = k /\ i' = 0 /\ sent' = <<>>
  /\ IF cmd = "prog"
       THEN /\ pc' = "data" /\ suspect' = suspect \cup {address}
            /\ IF ErasesFirst THEN Spm("erase", address) ELSE UNCHANGED memory
       ELSE pc' = "eop" /\ UNCHANGED <<memory, suspect>>
  /\ UNCHANGED <<reset, mode, cmd, address, buff, image>>

\* The last character of the data is followed by the erase of an NRWW page.
Receive(d, good) ==
  /\ Getch(good) /\ pc = "data"
  /\ buff' = [buff EXCEPT ![i] = d] /\ sent' = Append(sent, d)
  /\ i' = i + 1 /\ pc' = IF i + 1 = length THEN "eop" ELSE "data"
  /\ length' = IF i + 1 = length THEN 0 ELSE length
  /\ IF i + 1 = length /\ ~ErasesFirst THEN Spm("erase", address)
                                       ELSE UNCHANGED memory
  /\ UNCHANGED <<reset, mode, cmd, address, image, suspect>>

\* verifySpace(): anything but CRC_EOP ends in a loop until the watchdog.
VerifySpace(eop, good) ==
  /\ Getch(good) /\ pc = "eop"
  /\ pc' = CASE ~eop -> "loop" [] eop /\ cmd = "prog" -> "busy"
             [] eop /\ cmd = "read" -> "reply" [] OTHER -> "command"
  /\ i' = 0 /\ cmd' = "none"
  /\ UNCHANGED <<memory, reset, mode, address, length, buff, history>>

-----------------------------------------------------------------------------
(* The programming of a page, and its reading.                             *)

Proceeds_AtOnce == TRUE
Proceeds == Ready

BusyWait ==
  /\ pc = "busy" /\ Proceeds /\ pc' = "fill"
  /\ UNCHANGED <<memory, reset, fed, mode, cmd, address, length, buff, i, history,
                 told>>

\* The hardware ignores a fill, or a write, while it is busy.
Fill ==
  /\ pc = "fill"
  /\ fill' = IF Ready THEN [fill EXCEPT ![i] = buff[i]] ELSE fill
  /\ i' = i + 1 /\ pc' = IF i + 1 = PageSize THEN "write" ELSE "fill"
  /\ UNCHANGED <<flash, spm, rww, reset, fed, mode, cmd, address, length, buff,
                 history, told>>

Write ==
  /\ pc = "write" /\ pc' = "written"
  /\ IF Ready THEN Spm("write", address) ELSE UNCHANGED memory
  /\ UNCHANGED <<reset, fed, mode, cmd, address, length, buff, i, history, told>>

\* boot_rww_enable() and STK_OK.
Acknowledge ==
  /\ pc = "written" /\ Ready /\ pc' = "command" /\ rww' = TRUE /\ i' = 0
  /\ image' = [image EXCEPT ![address] = sent]
  /\ suspect' = suspect \ {address} /\ sent' = <<>>
  /\ UNCHANGED <<flash, fill, spm, reset, fed, mode, cmd, address, length, buff,
                 told>>

\* The bytes go out and the address moves on by them.
Reply ==
  /\ pc = "reply" /\ pc' = "command" /\ address' = NoPage /\ length' = 0
  /\ UNCHANGED <<memory, reset, fed, mode, cmd, buff, i, history, told>>

-----------------------------------------------------------------------------
Init ==
  /\ flash = [p \in Pages |-> Blank] /\ fill = Blank
  /\ spm = [op |-> "none", page |-> NoPage] /\ rww = TRUE
  /\ mcusr = {"PORF"} /\ wdt = FALSE /\ fed = TRUE /\ mode = "boot"
  /\ pc = "start" /\ cmd = "none" /\ address = NoPage /\ length = 0
  /\ buff = Blank /\ i = 0
  /\ sent = <<>> /\ image = [p \in Pages |-> <<>>] /\ suspect = {}
  /\ told = FALSE

Character(good) ==
  \/ \E c \in {"load", "prog", "read", "other"} : Command(c, good)
  \/ \E p \in Pages : LoadAddress(p, good)
  \/ \E k \in 1 .. PageSize : Length(k, good)
  \/ \E d \in Data : Receive(d, good)
  \/ \E eop \in BOOLEAN : VerifySpace(eop, good)

Running ==
  \/ ReadMcusr \/ AppStart \/ Config \/ BusyWait \/ Fill \/ Write
  \/ Acknowledge \/ Reply

Next ==
  \/ \E good \in BOOLEAN : Character(good)
  \/ Running \/ SpmDone \/ HalfPeriod \/ WatchdogFires \/ ExternalReset

\* Time runs on whatever the code and the host do.
Fairness ==
  WF_vars(Running) /\ WF_vars(SpmDone) /\ WF_vars(HalfPeriod) /\ WF_vars(WatchdogFires)

Spec == Init /\ [][Next]_vars /\ Fairness

-----------------------------------------------------------------------------
(* Properties.                                                             *)

TypeOK ==
  /\ mode \in {"boot", "app"} /\ spm.op \in {"none", "erase", "write"}
  /\ address \in Pages \cup {NoPage} /\ length \in 0 .. PageSize
  /\ i \in 0 .. PageSize /\ suspect \subseteq Pages /\ Len(sent) <= PageSize
  /\ pc \in {"start", "config", "command", "address", "length", "data", "eop",
             "loop", "busy", "fill", "write", "written", "reply", "appStart", "app"}

\* A page the bootloader has acknowledged holds what the host sent for it, until
\* it begins to program that page again: neither a reset, nor a failed command,
\* nor the erase that runs while the data comes, harms another page or this one.
FlashFaithful ==
  \A p \in Pages \ suspect :
    \A k \in DOMAIN image[p] : flash[p][k - 1] = image[p][k]

\* Flash is read back only when the RWW section can be read, and a sketch
\* starts with the watchdog off, even after a watchdog reset: WDRF is cleared
\* first.
CleanHandOver ==
  /\ pc = "reply" => rww /\ Ready
  /\ mode = "app" => ~wdt /\ Ready

\* What it programs and what it starts is right, whenever the host, the
\* watchdog or a reset cuts it short.
BootSafe == TypeOK /\ FlashFaithful /\ CleanHandOver

\* "This should cause the bootloader to abort and run the application soon": if
\* the host falls silent, or sends only noise, the sketch gets to run.
RunsTheSketch == <>[](mode = "app") \/ ([]<>told /\ []<>~told)
=============================================================================
