------------------------- MODULE Bootloaders_proofs -------------------------
(***************************************************************************)
(* Proofs about the boards' bootloaders.                                   *)
(*                                                                         *)
(* Optiboot: what it acknowledges is what the flash holds, for every       *)
(* number and size of pages, and whatever the host, the watchdog or a      *)
(* reset does at any instruction.                                          *)
(*                                                                         *)
(* AutoReset: a touch of the port that was called off leaves nothing       *)
(* behind, and a reset ends in the program that was asked for, for both    *)
(* builds of Caterina and every period of the timers.                      *)
(***************************************************************************)
EXTENDS Optiboot, AutoReset, SequenceTheorems, TLAPS

-----------------------------------------------------------------------------
(* The inductive invariant.                                                *)

Contents == Data \cup {Erased, Ruined}

StoreInv ==
  /\ flash \in [Pages -> [Word -> Contents]]
  /\ fill \in [Word -> Contents] /\ buff \in [Word -> Contents]
  /\ spm \in [op : {"none", "erase", "write"}, page : Pages \cup {NoPage}]
  /\ sent \in Seq(Data) /\ image \in [Pages -> Seq(Data)]

\* From the length of a page command to its STK_OK.
Programming ==
  \/ pc \in {"data", "busy", "fill", "write", "written"}
  \/ pc = "eop" /\ cmd = "prog"

ControlInv ==
  /\ mode = "app" <=> pc = "app"
  /\ pc = "address" => cmd = "load"
  /\ pc = "length" => cmd \in {"prog", "read"}
  /\ pc = "data" => cmd = "prog"
  /\ cmd = "prog" => address \in Pages /\ pc \in {"length", "data", "eop"}
  /\ Programming => address \in Pages /\ address \in suspect

\* Nothing but the page of the command is erased or written, and nothing is
\* under way when another command begins.
SpmInv ==
  /\ ~Ready => /\ spm.page \in Pages /\ spm.page \in suspect
               /\ spm.page = address
               /\ \/ spm.op = "erase" /\ (Programming \/ pc = "loop")
                     /\ pc \notin {"fill", "write", "written"}
                  \/ spm.op = "write" /\ pc = "written"
  /\ ~rww => Programming \/ pc = "loop"

\* The buffer holds what the host has sent so far.
BufferInv ==
  /\ Programming => \A k \in 1 .. Len(sent) : buff[k - 1] = sent[k]
  /\ pc = "data" => length \in 1 .. PageSize /\ i < length /\ Len(sent) = i

\* The page, from its erase to the end of its write.
PageInv ==
  /\ (pc = "data" /\ address \in NRWW) => Ready
  /\ \/ pc = "data" /\ address \notin NRWW
     \/ pc = "eop" /\ cmd = "prog"
     \/ pc = "busy"
     => (Ready => flash[address] = Blank)
  /\ pc = "busy" => i = 0
  /\ pc = "fill" =>
       /\ flash[address] = Blank /\ i < PageSize
       /\ fill = [w \in Word |-> IF w < i THEN buff[w] ELSE Erased]
  /\ pc = "write" => flash[address] = Blank /\ fill = buff
  /\ pc = "written" => IF Ready THEN flash[address] = buff /\ fill = Blank
                                ELSE flash[address] = Blank /\ fill = buff
  /\ pc \notin {"fill", "write", "written"} => fill = Blank

WatchdogInv ==
  /\ pc \in {"appStart", "config"} => mcusr = {}
  /\ pc = "app" => ~wdt

BootInv ==
  /\ TypeOK /\ StoreInv /\ ControlInv /\ SpmInv /\ BufferInv /\ PageInv
  /\ WatchdogInv /\ FlashFaithful

-----------------------------------------------------------------------------
(* The flash and its page buffer.                                          *)

LEMMA BlankForm ==
  /\ Blank \in [Word -> Contents]
  /\ \A w \in Word : Blank[w] = Erased
  /\ [w \in Word |-> Ruined] \in [Word -> Contents]
BY DEF Blank, Contents

\* What is written to an erased page is there as it is.
LEMMA WrittenForm ==
  ASSUME StoreInv, NEW p \in Pages
  PROVE  /\ Written(p) \in [Word -> Contents]
         /\ flash[p] = Blank => Written(p) = fill
<1>1. flash[p] \in [Word -> Contents] /\ fill \in [Word -> Contents]
  BY DEF StoreInv
<1>2. \A w \in Word : Written(p)[w] \in Contents
  BY <1>1 DEF Written, Contents
<1>3. Written(p) \in [Word -> Contents]
  BY <1>2 DEF Written
<1>4. ASSUME flash[p] = Blank
      PROVE  Written(p) = fill
  <2>1. \A w \in Word : flash[p][w] = Erased
    BY <1>4, BlankForm
  <2>2. \A w \in Word : Written(p)[w] = fill[w]
    BY <1>1, <2>1 DEF Written
  <2>. QED
    BY <1>1, <1>3, <2>2
<1>. QED
  BY <1>3, <1>4

LEMMA FinishedForm ==
  ASSUME StoreInv, NEW p \in Pages, NEW op, Finished(op, p)
  PROVE  /\ flash' \in [Pages -> [Word -> Contents]]
         /\ flash'[p] = IF op = "erase" THEN Blank ELSE Written(p)
         /\ \A q \in Pages : q # p => flash'[q] = flash[q]
<1>1. flash \in [Pages -> [Word -> Contents]]
  BY DEF StoreInv
<1>. DEFINE new == IF op = "erase" THEN Blank ELSE Written(p)
<1>2. new \in [Word -> Contents]
  BY BlankForm, WrittenForm
<1>3. flash' = [flash EXCEPT ![p] = new]
  BY DEF Finished
<1>. HIDE DEF new
<1>4. /\ flash' \in [Pages -> [Word -> Contents]] /\ flash'[p] = new
      /\ \A q \in Pages : q # p => flash'[q] = flash[q]
  BY <1>1, <1>2, <1>3
<1>. QED
  BY <1>4 DEF new

\* An erase or a write of page p when none is under way: at once in the NRWW
\* section, begun elsewhere.
LEMMA SpmForm ==
  ASSUME StoreInv, Ready, NEW p \in Pages, NEW op \in {"erase", "write"}, Spm(op, p)
  PROVE  /\ flash' \in [Pages -> [Word -> Contents]]
         /\ \A q \in Pages : q # p => flash'[q] = flash[q]
         /\ spm' \in [op : {"none", "erase", "write"}, page : Pages \cup {NoPage}]
         /\ p \in NRWW =>
              /\ Ready' /\ UNCHANGED <<spm, rww>>
              /\ fill' = (IF op = "write" THEN Blank ELSE fill)
              /\ flash'[p] = IF op = "erase" THEN Blank ELSE Written(p)
         /\ p \notin NRWW =>
              /\ ~Ready' /\ spm'.op = op /\ spm'.page = p /\ UNCHANGED <<flash, fill>>
<1>1. CASE p \in NRWW
  <2>1. /\ Finished(op, p) /\ UNCHANGED <<spm, rww>>
        /\ fill' = IF op = "write" THEN Blank ELSE fill
    BY <1>1 DEF Spm
  <2>2. spm' \in [op : {"none", "erase", "write"}, page : Pages \cup {NoPage}]
    BY <2>1 DEF StoreInv
  <2>. QED
    BY <1>1, <2>1, <2>2, FinishedForm DEF Ready
<1>2. CASE p \notin NRWW
  <2>1. spm' = [op |-> op, page |-> p] /\ UNCHANGED <<flash, fill>>
    BY <1>2 DEF Spm
  <2>. QED
    BY <1>2, <2>1 DEF Ready, StoreInv
<1>. QED
  BY <1>1, <1>2

\* A step that harms no page but those being programmed, and acknowledges none.
LEMMA Unharmed ==
  ASSUME FlashFaithful, suspect \subseteq suspect', image' = image,
         \A q \in Pages : q \notin suspect' => flash'[q] = flash[q]
  PROVE  FlashFaithful'
BY DEF FlashFaithful

LEMMA SentForm ==
  ASSUME StoreInv
  PROVE  Len(sent) \in Nat /\ DOMAIN sent = 1 .. Len(sent)
BY DEF StoreInv

-----------------------------------------------------------------------------
(* Each step keeps the invariant.                                          *)

LEMMA Initial == Init => BootInv
<1>. SUFFICES ASSUME Init
              PROVE  BootInv
  OBVIOUS
<1>. PageSize \in Nat \ {0}
  BY OptibootAssumption
<1>1. sent = <<>> /\ Len(sent) = 0
  BY DEF Init
<1>2. TypeOK
  BY <1>1 DEF Init, TypeOK
<1>3. StoreInv
  BY BlankForm DEF Init, StoreInv
<1>4. ControlInv /\ SpmInv /\ BufferInv /\ PageInv /\ WatchdogInv
  BY <1>1 DEF Init, ControlInv, SpmInv, BufferInv, PageInv, WatchdogInv,
     Programming, Ready
<1>5. FlashFaithful
  <2>1. \A p \in Pages : DOMAIN image[p] = {}
    <3>. SUFFICES ASSUME NEW p \in Pages
                  PROVE  DOMAIN image[p] = {}
      OBVIOUS
    <3>1. image[p] = <<>>
      BY DEF Init
    <3>2. image[p] \in Seq(Data) /\ Len(image[p]) = 0
      BY <3>1
    <3>. QED
      BY <3>2
  <2>. QED
    BY <2>1 DEF FlashFaithful
<1>. QED
  BY <1>2, <1>3, <1>4, <1>5 DEF BootInv

LEMMA RestartStep ==
  ASSUME BootInv, NEW cause, Restart(cause)
  PROVE  /\ TypeOK' /\ StoreInv' /\ ControlInv' /\ SpmInv' /\ BufferInv'
         /\ PageInv' /\ WatchdogInv' /\ FlashFaithful'
<1>. PageSize \in Nat \ {0}
  BY OptibootAssumption
<1>0. TypeOK /\ StoreInv /\ SpmInv /\ FlashFaithful
  BY DEF BootInv
<1>1. /\ mode' = "boot" /\ pc' = "start" /\ cmd' = "none" /\ address' = NoPage
      /\ length' = 0 /\ i' = 0 /\ sent' = <<>> /\ fill' = Blank /\ rww' = TRUE
      /\ spm' = [op |-> "none", page |-> NoPage]
      /\ UNCHANGED <<buff, image, suspect>>
  BY DEF Restart
<1>2. /\ flash' \in [Pages -> [Word -> Contents]]
      /\ \A q \in Pages : q \notin suspect => flash'[q] = flash[q]
  <2>1. flash \in [Pages -> [Word -> Contents]]
    BY <1>0 DEF StoreInv
  <2>2. CASE Ready
    BY <2>1, <2>2 DEF Restart
  <2>3. CASE ~Ready
    <3>. DEFINE ruin == [w \in Word |-> Ruined]
    <3>1. ruin \in [Word -> Contents]
      BY BlankForm
    <3>2. flash' = [flash EXCEPT ![spm.page] = ruin]
      BY <2>3 DEF Restart
    <3>3. spm.page \in Pages /\ spm.page \in suspect
      BY <1>0, <2>3 DEF SpmInv
    <3>. HIDE DEF ruin
    <3>. QED
      BY <2>1, <3>1, <3>2, <3>3
  <2>. QED
    BY <2>2, <2>3
<1>3. Ready' /\ spm'.op = "none" /\ Len(sent') = 0 /\ sent' \in Seq(Data)
  BY <1>1 DEF Ready
<1>4. TypeOK'
  BY <1>0, <1>1, <1>3 DEF TypeOK
<1>5. StoreInv'
  BY <1>0, <1>1, <1>2, <1>3, BlankForm DEF StoreInv
<1>6. ControlInv' /\ SpmInv' /\ BufferInv' /\ PageInv' /\ WatchdogInv'
  BY <1>1, <1>3 DEF ControlInv, SpmInv, BufferInv, PageInv, WatchdogInv, Programming
<1>7. FlashFaithful'
  BY <1>0, <1>1, <1>2, Unharmed
<1>. QED
  BY <1>4, <1>5, <1>6, <1>7

\* The end of an erase or of a write that ran while the code went on.
LEMMA SpmDoneStep == ASSUME BootInv, SpmDone PROVE BootInv'
<1>0. /\ TypeOK /\ StoreInv /\ ControlInv /\ SpmInv /\ BufferInv /\ PageInv
      /\ WatchdogInv /\ FlashFaithful
  BY DEF BootInv
<1>1. /\ ~Ready /\ Finished(spm.op, spm.page)
      /\ spm' = [op |-> "none", page |-> NoPage]
      /\ fill' = IF spm.op = "write" THEN Blank ELSE fill
      /\ UNCHANGED <<rww, mcusr, wdt, mode, pc, cmd, address, length, buff, i,
                     sent, image, suspect>>
  BY DEF SpmDone, reset, boot, history
<1>2. Ready' /\ spm'.op = "none"
  BY <1>1 DEF Ready
<1>3. /\ spm.page = address /\ address \in Pages /\ address \in suspect
      /\ \/ spm.op = "erase" /\ (Programming \/ pc = "loop")
            /\ pc \notin {"fill", "write", "written"}
         \/ spm.op = "write" /\ pc = "written"
  BY <1>0, <1>1 DEF SpmInv
<1>4. /\ flash' \in [Pages -> [Word -> Contents]]
      /\ flash'[address] = IF spm.op = "erase" THEN Blank ELSE Written(address)
      /\ \A q \in Pages : q # address => flash'[q] = flash[q]
  BY <1>0, <1>1, <1>3, FinishedForm
<1>5. TypeOK'
  BY <1>0, <1>1, <1>2 DEF TypeOK
<1>6. StoreInv'
  BY <1>0, <1>1, <1>4, BlankForm DEF StoreInv
<1>7. ControlInv' /\ SpmInv' /\ WatchdogInv' /\ BufferInv'
  BY <1>0, <1>1, <1>2 DEF ControlInv, SpmInv, WatchdogInv, BufferInv, Programming
<1>8. PageInv'
  <2>1. CASE spm.op = "erase"
    <3>1. fill' = fill /\ flash'[address] = Blank
      BY <1>1, <1>4, <2>1
    <3>. QED
      BY <1>0, <1>1, <1>2, <1>3, <2>1, <3>1 DEF PageInv
  <2>2. CASE spm.op = "write"
    <3>1. pc = "written" /\ flash[address] = Blank /\ fill = buff
      BY <1>0, <1>1, <1>3, <2>2 DEF PageInv
    <3>2. flash'[address] = buff /\ fill' = Blank
      BY <1>0, <1>1, <1>3, <1>4, <2>2, <3>1, WrittenForm
    <3>. QED
      BY <1>1, <1>2, <3>1, <3>2 DEF PageInv
  <2>. QED
    BY <1>3, <2>1, <2>2
<1>9. FlashFaithful'
  BY <1>0, <1>1, <1>3, <1>4, Unharmed
<1>. QED
  BY <1>5, <1>6, <1>7, <1>8, <1>9 DEF BootInv


\* Reset, the jump to the sketch, and the watchdog's clock.
LEMMA StartStep ==
  ASSUME BootInv, ReadMcusr \/ AppStart \/ Config \/ HalfPeriod
  PROVE  BootInv'
<1>0. /\ TypeOK /\ StoreInv /\ ControlInv /\ SpmInv /\ BufferInv /\ PageInv
      /\ WatchdogInv /\ FlashFaithful
  BY DEF BootInv
<1>1. /\ UNCHANGED <<flash, fill, spm, rww, cmd, address, length, buff, i, sent,
                     image, suspect>>
      /\ pc' # pc => /\ pc' \in {"config", "appStart", "app", "command"}
                     /\ pc \in {"start", "config", "appStart"}
      /\ mode' = (IF pc' = "app" /\ pc' # pc THEN "app" ELSE mode)
  BY DEF ReadMcusr, AppStart, Config, HalfPeriod, memory, boot, history, reset
<1>2. TypeOK' /\ StoreInv'
  BY <1>0, <1>1 DEF TypeOK, StoreInv
<1>3. Programming' <=> Programming
  BY <1>1 DEF Programming
<1>4. Ready' <=> Ready
  BY <1>1 DEF Ready
<1>5. ControlInv' /\ SpmInv'
  BY <1>0, <1>1, <1>3, <1>4 DEF ControlInv, SpmInv
<1>6. BufferInv' /\ PageInv'
  BY <1>0, <1>1, <1>3, <1>4 DEF BufferInv, PageInv
<1>7. WatchdogInv'
  BY <1>0 DEF WatchdogInv, ReadMcusr, AppStart, Config, HalfPeriod, Cleared,
     WatchdogConfig, boot, reset
<1>8. FlashFaithful'
  BY <1>0, <1>1, Unharmed
<1>. QED
  BY <1>2, <1>5, <1>6, <1>7, <1>8 DEF BootInv

\* The characters of a command that touch no page.
LEMMA CommandStep ==
  ASSUME BootInv, NEW good \in BOOLEAN,
         \/ \E c \in {"load", "prog", "read", "other"} : Command(c, good)
         \/ \E p \in Pages : LoadAddress(p, good)
         \/ \E eop \in BOOLEAN : VerifySpace(eop, good)
  PROVE  BootInv'
<1>. PageSize \in Nat \ {0} /\ NoPage \notin Pages
  BY OptibootAssumption
<1>0. /\ TypeOK /\ StoreInv /\ ControlInv /\ SpmInv /\ BufferInv /\ PageInv
      /\ WatchdogInv /\ FlashFaithful
  BY DEF BootInv
<1>1. /\ UNCHANGED <<flash, fill, spm, rww, mcusr, wdt, mode, length, buff, sent,
                     image, suspect>>
      /\ mode = "boot" /\ (Ready' <=> Ready)
  BY DEF Command, LoadAddress, VerifySpace, Getch, Waiting, memory, reset, history,
     Ready
<1>2. StoreInv' /\ FlashFaithful'
  BY <1>0, <1>1, Unharmed DEF StoreInv
<1>3. CASE \E c \in {"load", "prog", "read", "other"} : Command(c, good)
  <2>1. PICK c \in {"load", "prog", "read", "other"} : Command(c, good)
    BY <1>3
  <2>2. /\ pc = "command" /\ cmd' = c /\ UNCHANGED <<address, i>>
        /\ c \in {"prog", "read"} => address # NoPage
        /\ \/ c = "load" /\ pc' = "address"
           \/ c = "other" /\ pc' = "eop"
           \/ c \in {"prog", "read"} /\ pc' = "length"
    BY <2>1 DEF Command
  <2>3. TypeOK' /\ WatchdogInv'
    BY <1>0, <1>1, <2>2 DEF TypeOK, WatchdogInv
  <2>4. ControlInv'
    BY <1>0, <1>1, <2>2 DEF ControlInv, TypeOK, Programming
  <2>5. SpmInv' /\ BufferInv' /\ PageInv'
    BY <1>0, <1>1, <2>2 DEF SpmInv, BufferInv, PageInv, Programming
  <2>. QED
    BY <1>2, <2>3, <2>4, <2>5 DEF BootInv
<1>4. CASE \E p \in Pages : LoadAddress(p, good)
  <2>1. /\ pc = "address" /\ pc' = "eop" /\ address' \in Pages
        /\ UNCHANGED <<cmd, i>>
    BY <1>4 DEF LoadAddress
  <2>2. TypeOK' /\ WatchdogInv'
    BY <1>0, <1>1, <2>1 DEF TypeOK, WatchdogInv
  <2>3. ControlInv' /\ SpmInv' /\ BufferInv' /\ PageInv'
    BY <1>0, <1>1, <2>1 DEF ControlInv, SpmInv, BufferInv, PageInv, Programming
  <2>. QED
    BY <1>2, <2>2, <2>3 DEF BootInv
<1>5. CASE \E eop \in BOOLEAN : VerifySpace(eop, good)
  <2>1. /\ pc = "eop" /\ i' = 0 /\ cmd' = "none" /\ UNCHANGED address
        /\ \/ pc' = "loop"
           \/ pc' = "busy" /\ cmd = "prog"
           \/ pc' \in {"reply", "command"} /\ cmd # "prog"
    BY <1>5 DEF VerifySpace
  <2>2. TypeOK' /\ WatchdogInv'
    BY <1>0, <1>1, <2>1 DEF TypeOK, WatchdogInv
  <2>3. ControlInv' /\ SpmInv' /\ BufferInv' /\ PageInv'
    BY <1>0, <1>1, <2>1 DEF ControlInv, SpmInv, BufferInv, PageInv, Programming
  <2>. QED
    BY <1>2, <2>2, <2>3 DEF BootInv
<1>. QED
  BY <1>3, <1>4, <1>5

\* The length: the erase of a page below NRWWSTART begins here.
LEMMA LengthStep ==
  ASSUME BootInv, NEW good \in BOOLEAN, NEW k \in 1 .. PageSize, Length(k, good)
  PROVE  BootInv'
<1>. PageSize \in Nat \ {0}
  BY OptibootAssumption
<1>0. /\ TypeOK /\ StoreInv /\ ControlInv /\ SpmInv /\ BufferInv /\ PageInv
      /\ WatchdogInv /\ FlashFaithful
  BY DEF BootInv
<1>1. /\ pc = "length" /\ mode = "boot" /\ length' = k /\ i' = 0 /\ sent' = <<>>
      /\ UNCHANGED <<mcusr, wdt, mode, cmd, address, buff, image>>
      /\ cmd \in {"prog", "read"} /\ fill = Blank
      /\ Ready
  BY <1>0 DEF Length, Getch, Waiting, reset, ControlInv, PageInv, SpmInv, Programming
<1>2. Len(sent') = 0 /\ sent' \in Seq(Data)
  BY <1>1
<1>3. CASE cmd = "read"
  <2>1. pc' = "eop" /\ UNCHANGED <<flash, fill, spm, rww, suspect>>
    BY <1>3 DEF Length, memory
  <2>2. TypeOK' /\ StoreInv' /\ WatchdogInv'
    BY <1>0, <1>1, <1>2, <2>1 DEF TypeOK, StoreInv, WatchdogInv
  <2>3. ControlInv' /\ SpmInv' /\ BufferInv' /\ PageInv'
    BY <1>0, <1>1, <1>3, <2>1 DEF ControlInv, SpmInv, BufferInv, PageInv,
       Programming, Ready
  <2>4. FlashFaithful'
    BY <1>0, <1>1, <2>1, Unharmed
  <2>. QED
    BY <2>2, <2>3, <2>4 DEF BootInv
<1>4. CASE cmd = "prog"
  <2>1. /\ pc' = "data" /\ suspect' = suspect \cup {address} /\ address \in Pages
        /\ address \in suspect'
        /\ IF address \notin NRWW THEN Spm("erase", address)
                                  ELSE UNCHANGED <<flash, fill, spm, rww>>
    BY <1>0, <1>4 DEF Length, memory, ErasesFirst, ControlInv
  <2>2. /\ flash' \in [Pages -> [Word -> Contents]] /\ UNCHANGED fill
        /\ spm' \in [op : {"none", "erase", "write"}, page : Pages \cup {NoPage}]
        /\ \A q \in Pages : flash'[q] = flash[q]
        /\ address \in NRWW => Ready' /\ UNCHANGED rww
        /\ address \notin NRWW =>
             ~Ready' /\ spm'.op = "erase" /\ spm'.page = address
    <3>1. CASE address \in NRWW
      BY <1>0, <1>1, <2>1, <3>1 DEF StoreInv, Ready
    <3>2. CASE address \notin NRWW
      BY <1>0, <1>1, <2>1, <3>2, SpmForm
    <3>. QED
      BY <3>1, <3>2
  <2>3. TypeOK' /\ StoreInv' /\ WatchdogInv'
    <3>1. spm'.op \in {"none", "erase", "write"}
      BY <2>2
    <3>. QED
      BY <1>0, <1>1, <1>2, <2>1, <2>2, <3>1 DEF TypeOK, StoreInv, WatchdogInv
  <2>4. ControlInv' /\ SpmInv'
    BY <1>0, <1>1, <1>4, <2>1, <2>2 DEF ControlInv, SpmInv, Programming
  <2>5. BufferInv'
    BY <1>1, <1>2, <2>1 DEF BufferInv
  <2>6. PageInv'
    BY <1>1, <2>1, <2>2 DEF PageInv
  <2>7. FlashFaithful'
    BY <1>0, <1>1, <2>1, <2>2, Unharmed
  <2>. QED
    BY <2>3, <2>4, <2>5, <2>6, <2>7 DEF BootInv
<1>. QED
  BY <1>1, <1>3, <1>4


\* A word of the page: the last one starts the erase of a page of the NRWW
\* section, which takes its place before the next instruction.
LEMMA ReceiveStep ==
  ASSUME BootInv, NEW good \in BOOLEAN, NEW d \in Data, Receive(d, good)
  PROVE  BootInv'
<1>. PageSize \in Nat \ {0} /\ d \in Contents
  BY OptibootAssumption DEF Contents
<1>0. /\ TypeOK /\ StoreInv /\ ControlInv /\ SpmInv /\ BufferInv /\ PageInv
      /\ WatchdogInv /\ FlashFaithful
  BY DEF BootInv
<1>1. /\ pc = "data" /\ mode = "boot" /\ cmd = "prog" /\ address \in Pages
      /\ address \in suspect /\ buff' = [buff EXCEPT ![i] = d]
      /\ sent' = Append(sent, d) /\ i' = i + 1
      /\ UNCHANGED <<mcusr, wdt, mode, cmd, address, image, suspect>>
      /\ fill = Blank
  <2>1. /\ pc = "data" /\ mode = "boot" /\ buff' = [buff EXCEPT ![i] = d]
        /\ sent' = Append(sent, d) /\ i' = i + 1
        /\ UNCHANGED <<mcusr, wdt, mode, cmd, address, image, suspect>>
    BY DEF Receive, Getch, Waiting, reset
  <2>2. cmd = "prog" /\ address \in Pages /\ address \in suspect /\ fill = Blank
    BY <1>0, <2>1 DEF ControlInv, PageInv, Programming
  <2>. QED
    BY <2>1, <2>2
<1>2. /\ length \in 1 .. PageSize /\ i < length /\ Len(sent) = i /\ i \in Nat
      /\ i \in Word
  BY <1>0, <1>1 DEF BufferInv, TypeOK, Word
<1>3. /\ \/ i + 1 = length /\ pc' = "eop" /\ length' = 0
         \/ i + 1 < length /\ pc' = "data" /\ length' = length
      /\ IF i + 1 = length /\ address \in NRWW
           THEN Spm("erase", address) ELSE UNCHANGED <<flash, fill, spm, rww>>
  BY <1>1, <1>2 DEF Receive, ErasesFirst, memory
<1>4. /\ sent' \in Seq(Data) /\ Len(sent') = i + 1 /\ sent'[i + 1] = d
      /\ \A k \in 1 .. i : sent'[k] = sent[k]
  BY <1>0, <1>1, <1>2 DEF StoreInv
<1>5. buff' \in [Word -> Contents] /\ buff'[i] = d
      /\ \A w \in Word : w # i => buff'[w] = buff[w]
  BY <1>0, <1>1, <1>2 DEF StoreInv
<1>6. /\ flash' \in [Pages -> [Word -> Contents]] /\ UNCHANGED <<fill, rww>>
      /\ spm' = spm /\ (Ready' <=> Ready)
      /\ \A q \in Pages : q # address => flash'[q] = flash[q]
      /\ pc' = "eop" /\ address \in NRWW => flash'[address] = Blank
      /\ pc' = "eop" /\ address \notin NRWW => flash'[address] = flash[address]
      /\ pc' = "data" => flash'[address] = flash[address]
  <2>1. CASE i + 1 = length /\ address \in NRWW
    <3>1. Ready
      BY <1>0, <1>1, <2>1 DEF PageInv
    <3>. QED
      BY <1>0, <1>1, <1>3, <2>1, <3>1, SpmForm
  <2>2. CASE ~(i + 1 = length /\ address \in NRWW)
    BY <1>0, <1>1, <1>2, <1>3, <2>2 DEF StoreInv, Ready
  <2>. QED
    BY <2>1, <2>2
<1>7. TypeOK'
  BY <1>0, <1>1, <1>2, <1>3, <1>4, <1>6 DEF TypeOK
<1>8. StoreInv'
  BY <1>0, <1>1, <1>4, <1>5, <1>6 DEF StoreInv
<1>9. ControlInv' /\ SpmInv' /\ WatchdogInv'
  BY <1>0, <1>1, <1>3, <1>6 DEF ControlInv, SpmInv, WatchdogInv, Programming
<1>10. BufferInv'
  <2>1. \A k \in 1 .. Len(sent') : buff'[k - 1] = sent'[k]
    <3>. SUFFICES ASSUME NEW k \in 1 .. i + 1
                  PROVE  buff'[k - 1] = sent'[k]
      BY <1>4
    <3>1. CASE k = i + 1
      BY <1>2, <1>4, <1>5, <3>1
    <3>2. CASE k # i + 1
      <4>1. k \in 1 .. i /\ k - 1 \in Word /\ k - 1 # i
        BY <1>2, <3>2 DEF Word
      <4>2. buff[k - 1] = sent[k]
        BY <1>0, <1>1, <1>2, <4>1 DEF BufferInv, Programming
      <4>. QED
        BY <1>4, <1>5, <4>1, <4>2
    <3>. QED
      BY <3>1, <3>2
  <2>. QED
    BY <1>1, <1>2, <1>3, <1>4, <2>1 DEF BufferInv
<1>11. PageInv'
  <2>1. address \notin NRWW => (Ready => flash[address] = Blank)
    BY <1>0, <1>1 DEF PageInv
  <2>. QED
    BY <1>0, <1>1, <1>3, <1>6, <2>1 DEF PageInv
<1>12. FlashFaithful'
  BY <1>0, <1>1, <1>6, Unharmed
<1>. QED
  BY <1>7, <1>8, <1>9, <1>10, <1>11, <1>12 DEF BootInv

\* The page is filled, word by word, once its erase has ended.
LEMMA FillStep == ASSUME BootInv, BusyWait \/ Fill PROVE BootInv'
<1>. PageSize \in Nat \ {0}
  BY OptibootAssumption
<1>0. /\ TypeOK /\ StoreInv /\ ControlInv /\ SpmInv /\ BufferInv /\ PageInv
      /\ WatchdogInv /\ FlashFaithful
  BY DEF BootInv
<1>1. /\ UNCHANGED <<flash, spm, rww, mcusr, wdt, mode, cmd, address, length, buff,
                     sent, image, suspect>>
      /\ Programming /\ pc' # "app" /\ mode = "boot" /\ Ready /\ Ready'
      /\ pc \in {"busy", "fill"} /\ pc' \in {"fill", "write"}
  BY <1>0 DEF BusyWait, Fill, memory, reset, history, Programming, Ready, Proceeds,
     ControlInv, SpmInv, TypeOK
<1>2. ControlInv' /\ SpmInv' /\ BufferInv' /\ WatchdogInv'
  BY <1>0, <1>1 DEF ControlInv, SpmInv, BufferInv, WatchdogInv, Programming
<1>3. FlashFaithful'
  BY <1>0, <1>1, Unharmed
<1>4. CASE BusyWait
  <2>1. pc = "busy" /\ pc' = "fill" /\ UNCHANGED <<fill, i>>
    BY <1>4 DEF BusyWait, memory
  <2>2. i = 0 /\ flash[address] = Blank /\ fill = Blank
    BY <1>0, <1>1, <2>1 DEF PageInv
  <2>3. Blank = [w \in Word |-> IF w < 0 THEN buff[w] ELSE Erased]
    BY DEF Blank, Word
  <2>4. TypeOK' /\ StoreInv'
    BY <1>0, <1>1, <2>1 DEF TypeOK, StoreInv
  <2>5. PageInv'
    BY <1>1, <2>1, <2>2, <2>3 DEF PageInv
  <2>. QED
    BY <1>2, <1>3, <2>4, <2>5 DEF BootInv
<1>5. CASE Fill
  <2>1. /\ pc = "fill" /\ fill' = [fill EXCEPT ![i] = buff[i]] /\ i' = i + 1
        /\ pc' = IF i + 1 = PageSize THEN "write" ELSE "fill"
    BY <1>1, <1>5 DEF Fill
  <2>2. /\ i \in Nat /\ i < PageSize /\ i \in Word /\ flash[address] = Blank
        /\ fill = [w \in Word |-> IF w < i THEN buff[w] ELSE Erased]
    BY <1>0, <2>1 DEF PageInv, TypeOK, Word
  <2>3. fill' = [w \in Word |-> IF w < i + 1 THEN buff[w] ELSE Erased]
    <3>1. \A w \in Word : w \in Int /\ (w < i + 1 <=> w < i \/ w = i)
      BY <2>2 DEF Word
    <3>2. DOMAIN fill' = Word
      BY <2>1, <2>2
    <3>3. ASSUME NEW w \in Word
          PROVE  fill'[w] = IF w < i + 1 THEN buff[w] ELSE Erased
      BY <2>1, <2>2, <3>1
    <3>. QED
      BY <2>1, <2>2, <3>2, <3>3
  <2>4. fill' \in [Word -> Contents]
    BY <1>0, <2>1, <2>2 DEF StoreInv
  <2>5. TypeOK' /\ StoreInv'
    BY <1>0, <1>1, <2>1, <2>2, <2>4 DEF TypeOK, StoreInv
  <2>6. CASE i + 1 = PageSize
    <3>1. \A w \in Word : w < i + 1
      BY <2>2, <2>6 DEF Word
    <3>2. fill' = buff
      BY <1>0, <2>3, <3>1 DEF StoreInv
    <3>. QED
      BY <1>1, <1>2, <1>3, <2>1, <2>2, <2>5, <2>6, <3>2 DEF PageInv, BootInv
  <2>7. CASE i + 1 # PageSize
    <3>1. i + 1 < PageSize
      BY <2>2, <2>7
    <3>2. PageInv'
      BY <1>1, <2>1, <2>2, <2>3, <2>7, <3>1 DEF PageInv
    <3>. QED
      BY <1>2, <1>3, <2>5, <3>2 DEF BootInv
  <2>. QED
    BY <2>6, <2>7
<1>. QED
  BY <1>4, <1>5

LEMMA WriteStep == ASSUME BootInv, Write PROVE BootInv'
<1>0. /\ TypeOK /\ StoreInv /\ ControlInv /\ SpmInv /\ BufferInv /\ PageInv
      /\ WatchdogInv /\ FlashFaithful
  BY DEF BootInv
<1>1. /\ pc = "write" /\ pc' = "written" /\ flash[address] = Blank /\ fill = buff
      /\ address \in Pages /\ address \in suspect /\ Ready
      /\ UNCHANGED <<mcusr, wdt, mode, cmd, address, length, buff, i, sent, image,
                     suspect>>
  BY <1>0 DEF Write, reset, history, PageInv, ControlInv, SpmInv, Programming
<1>2. Spm("write", address)
  BY <1>1 DEF Write
<1>3. /\ flash' \in [Pages -> [Word -> Contents]]
      /\ \A q \in Pages : q # address => flash'[q] = flash[q]
      /\ spm' \in [op : {"none", "erase", "write"}, page : Pages \cup {NoPage}]
      /\ \/ Ready' /\ fill' = Blank /\ flash'[address] = buff /\ rww' = rww
         \/ /\ ~Ready' /\ spm'.op = "write" /\ spm'.page = address
            /\ UNCHANGED <<flash, fill>>
  BY <1>0, <1>1, <1>2, SpmForm, WrittenForm
<1>4. spm'.op \in {"none", "erase", "write"} /\ fill' \in [Word -> Contents]
  BY <1>0, <1>3, BlankForm DEF StoreInv
<1>5. TypeOK' /\ StoreInv'
  BY <1>0, <1>1, <1>3, <1>4 DEF TypeOK, StoreInv
<1>6. ControlInv' /\ SpmInv' /\ BufferInv' /\ WatchdogInv'
  BY <1>0, <1>1, <1>3 DEF ControlInv, SpmInv, BufferInv, WatchdogInv, Programming
<1>7. PageInv'
  BY <1>1, <1>3 DEF PageInv
<1>8. FlashFaithful'
  BY <1>0, <1>1, <1>3, Unharmed
<1>. QED
  BY <1>5, <1>6, <1>7, <1>8 DEF BootInv

\* STK_OK: the page holds the words the host has sent.
LEMMA AcknowledgeStep == ASSUME BootInv, Acknowledge PROVE BootInv'
<1>. PageSize \in Nat \ {0}
  BY OptibootAssumption
<1>0. /\ TypeOK /\ StoreInv /\ ControlInv /\ SpmInv /\ BufferInv /\ PageInv
      /\ WatchdogInv /\ FlashFaithful
  BY DEF BootInv
<1>1. /\ pc = "written" /\ pc' = "command" /\ Ready /\ Ready' /\ rww' = TRUE
      /\ i' = 0 /\ image' = [image EXCEPT ![address] = sent]
      /\ suspect' = suspect \ {address} /\ sent' = <<>>
      /\ UNCHANGED <<flash, fill, spm, mcusr, wdt, mode, cmd, address, length, buff>>
  BY DEF Acknowledge, reset, Ready
<1>2. /\ address \in Pages /\ flash[address] = buff /\ fill = Blank
      /\ \A k \in 1 .. Len(sent) : buff[k - 1] = sent[k]
      /\ mode # "app"
  BY <1>0, <1>1 DEF ControlInv, PageInv, BufferInv, Programming, TypeOK
<1>3. Len(sent') = 0 /\ sent' \in Seq(Data)
  BY <1>1
<1>4. TypeOK' /\ StoreInv'
  BY <1>0, <1>1, <1>2, <1>3 DEF TypeOK, StoreInv
<1>5. ControlInv' /\ SpmInv' /\ BufferInv' /\ PageInv' /\ WatchdogInv'
  BY <1>0, <1>1, <1>2 DEF ControlInv, SpmInv, BufferInv, PageInv, WatchdogInv,
     Programming
<1>6. FlashFaithful'
  <2>. SUFFICES ASSUME NEW p \in Pages \ suspect', NEW k \in DOMAIN image'[p]
                PROVE  flash'[p][k - 1] = image'[p][k]
    BY DEF FlashFaithful
  <2>1. CASE p = address
    <3>1. image'[p] = sent
      BY <1>0, <1>1, <1>2, <2>1 DEF StoreInv
    <3>2. k \in 1 .. Len(sent)
      BY <1>0, <3>1, SentForm
    <3>. QED
      BY <1>1, <1>2, <2>1, <3>1, <3>2
  <2>2. CASE p # address
    <3>1. image'[p] = image[p] /\ p \in Pages \ suspect
      BY <1>0, <1>1, <1>2, <2>2 DEF StoreInv
    <3>. QED
      BY <1>0, <1>1, <3>1 DEF FlashFaithful
  <2>. QED
    BY <2>1, <2>2
<1>. QED
  BY <1>4, <1>5, <1>6 DEF BootInv

LEMMA ReplyStep == ASSUME BootInv, Reply PROVE BootInv'
<1>. PageSize \in Nat \ {0} /\ NoPage \notin Pages
  BY OptibootAssumption
<1>0. /\ TypeOK /\ StoreInv /\ ControlInv /\ SpmInv /\ BufferInv /\ PageInv
      /\ WatchdogInv /\ FlashFaithful
  BY DEF BootInv
<1>1. /\ pc = "reply" /\ pc' = "command" /\ address' = NoPage /\ length' = 0
      /\ UNCHANGED <<flash, fill, spm, rww, mcusr, wdt, mode, cmd, buff, i, sent,
                     image, suspect>>
      /\ (Ready' <=> Ready)
  BY DEF Reply, memory, reset, history, Ready
<1>2. TypeOK' /\ StoreInv' /\ WatchdogInv'
  BY <1>0, <1>1 DEF TypeOK, StoreInv, WatchdogInv
<1>3. ControlInv' /\ SpmInv' /\ BufferInv' /\ PageInv'
  BY <1>0, <1>1 DEF ControlInv, SpmInv, BufferInv, PageInv, Programming
<1>4. FlashFaithful'
  BY <1>0, <1>1, Unharmed
<1>. QED
  BY <1>2, <1>3, <1>4 DEF BootInv

LEMMA Invariant == BootInv /\ [Next]_vars => BootInv'
<1>. SUFFICES ASSUME BootInv, [Next]_vars
              PROVE  BootInv'
  OBVIOUS
<1>1. CASE \E good \in BOOLEAN : Character(good)
  BY <1>1, CommandStep, LengthStep, ReceiveStep DEF Character
<1>2. CASE Running
  BY <1>2, StartStep, FillStep, WriteStep, AcknowledgeStep, ReplyStep DEF Running
<1>3. CASE SpmDone
  BY <1>3, SpmDoneStep
<1>4. CASE HalfPeriod
  BY <1>4, StartStep
<1>5. CASE WatchdogFires \/ ExternalReset
  BY <1>5, RestartStep DEF WatchdogFires, ExternalReset, BootInv
<1>6. CASE UNCHANGED vars
  BY <1>6 DEF vars, memory, reset, boot, history, BootInv, TypeOK, StoreInv,
     ControlInv, SpmInv, BufferInv, PageInv, WatchdogInv, FlashFaithful, Programming,
     Ready
<1>. QED
  BY <1>1, <1>2, <1>3, <1>4, <1>5, <1>6 DEF Next

-----------------------------------------------------------------------------
(* The theorem.                                                            *)

\* Whatever the host sends, and whenever the watchdog or a reset cuts it short,
\* a page that was acknowledged and is not being programmed again holds what was
\* sent for it, flash is read back only when it can be, and the sketch is
\* started with the watchdog off and no erase or write under way.
THEOREM BootCorrect == Spec => []BootSafe
<1>1. BootInv => BootSafe
  BY DEF BootInv, BootSafe, CleanHandOver, ControlInv, SpmInv, WatchdogInv, Programming
<1>. QED
  BY Initial, Invariant, <1>1, PTL DEF Spec

-----------------------------------------------------------------------------
(* The other bootloader, Caterina: module AutoReset.                       *)

USE AutoResetAssumption

\* A key lies in its word exactly while a touch asks for a reset that the sketch
\* has not written over, and under it the sketch's own word can still be found.
KeyInv ==
  running = "sketch" =>
    /\ overwritten => touched /\ ~newBootloader
    /\ touched /\ ~overwritten => word[Key] = "key"
    /\ ~touched \/ overwritten => word[Key] # "key"
    /\ word[IF Key = "pos" /\ touched /\ ~overwritten THEN "ramend" ELSE "pos"]
         = mine

\* While an undisturbed touch is under way the setting of the sketch is the one
\* saved.
SettingInv ==
  running = "sketch" /\ disturbed = {} =>
    /\ ~overwritten
    /\ IF touched THEN wdtcsr_save = own ELSE wdtcsr = own

\* Past its decision the bootloader has neither causes nor a key before it.
CauseInv ==
  /\ running # "reset" => mcusr_state = {}
  /\ running = "boot" => word[Key] # "key"
  /\ running = "reset" /\ mcusr_state = {"WDRF"} =>
       (word[Key] = "key" <=> touched /\ ~overwritten)

TouchInv ==
  /\ ResetTypeOK /\ touched \in BOOLEAN /\ overwritten \in BOOLEAN
  /\ KeyInv /\ SettingInv /\ CauseInv

Values == {"key", "nothing"} \cup SketchData

LEMMA TouchInitially == ResetInit => TouchInv
<1>. SUFFICES ASSUME ResetInit PROVE TouchInv
  OBVIOUS
<1>1. /\ running = "reset" /\ mcusr_state = {"PORF"} /\ {"PORF"} # {"WDRF"}
      /\ touched = FALSE /\ overwritten = FALSE
  BY DEF ResetInit
<1>2. /\ word \in [Words -> Values] /\ mine \in SketchData /\ doing \in Places
      /\ disturbed \subseteq Disturbances
  BY DEF ResetInit, Values, SketchData, Places, Disturbances
<1>3. ResetTypeOK
  BY <1>2 DEF ResetInit, ResetTypeOK, Values
<1>. QED
  BY <1>1, <1>3 DEF TouchInv, KeyInv, SettingInv, CauseInv

LEMMA KeyIsWord == Key \in Words
BY DEF Key, Words

\* CDC_Setup(): a touch, its being called off, and any other line state.
LEMMA LineStatePreserves ==
  ASSUME TouchInv, NEW d \in BOOLEAN,
         SetControlLineState(d)
  PROVE  TouchInv'
<1> USE DEF TouchInv, SetControlLineState, cpu, bootloader
<1>1. /\ running = "sketch" /\ UNCHANGED <<newBootloader, running, mcusr_state, own>>
      /\ UNCHANGED <<present, Timeout, doing, mine>>
      /\ touched' = Close(d) /\ ~overwritten'
      /\ disturbed' = IF touched /\ touched' THEN disturbed \cup {"repeated"}
                      ELSE disturbed
  BY DEF Close
<1>2. running' = "sketch" /\ mcusr_state' = {}
  BY <1>1 DEF CauseInv
<1>3. /\ disturbed' = {} => disturbed = {} /\ ~(touched /\ touched')
      /\ disturbed' \subseteq Disturbances
  BY <1>1 DEF ResetTypeOK, Disturbances
<1>4. touched' \in BOOLEAN /\ overwritten' \in BOOLEAN
  BY <1>1 DEF Close
<1>5. CauseInv'
  BY <1>2 DEF CauseInv
<1>6. word["pos"] \in Values /\ word["ramend"] \in Values /\ Key \in Words
  BY KeyIsWord DEF ResetTypeOK, Words, Values
<1>7. CASE Close(d)
  <2>1. Trigger /\ touched'
    BY <1>1, <1>7
  <2>2. Backup \in Values
    BY <1>6 DEF Backup
  <2>3. ~newBootloader => Backup = mine
    BY <1>1 DEF Backup, KeyInv, Key, ResetTypeOK, SketchData
  <2>4. newBootloader => word["pos"] = mine
    BY <1>1 DEF KeyInv, Key
  <2>5. word' \in [Words -> Values]
    BY <2>1, <2>2 DEF Trigger, ResetTypeOK, Words, Key, Values
  <2>6. ResetTypeOK'
    BY <1>1, <1>3, <2>1, <2>5 DEF Trigger, ResetTypeOK, Values
  <2>7. KeyInv'
    BY <1>1, <2>1, <2>2, <2>3, <2>4
    DEF Trigger, KeyInv, Key, ResetTypeOK, Words
  <2>8. SettingInv'
    BY <1>1, <1>3, <2>1 DEF Trigger, SettingInv
  <2>. QED
    BY <1>4, <1>5, <2>6, <2>7, <2>8
<1>8. CASE ~Close(d) /\ Pending
  <2>1. Abort /\ ~touched' /\ touched /\ ~overwritten
    BY <1>1, <1>8 DEF Pending, KeyInv
  <2>2. word' \in [Words -> Values]
    BY <1>6, <2>1 DEF Abort, ResetTypeOK, Words, Key, Values
  <2>3. ResetTypeOK'
    BY <1>1, <1>3, <2>1, <2>2 DEF Abort, Restored, ResetTypeOK, Values
  <2>4. KeyInv'
    BY <1>1, <2>1 DEF Abort, KeyInv, Key, ResetTypeOK, Words, SketchData
  <2>5. SettingInv'
    BY <1>1, <1>2, <1>3, <2>1 DEF Abort, Restored, SettingInv
  <2>. QED
    BY <1>4, <1>5, <2>3, <2>4, <2>5
<1>9. CASE ~Close(d) /\ ~Pending
  <2>1. /\ UNCHANGED <<word, wdtcsr, elapsed, wdtcsr_save>> /\ ~touched'
        /\ ~touched \/ overwritten
    BY <1>1, <1>9 DEF Pending, KeyInv, watchdog
  <2>2. SettingInv'
    BY <1>1, <1>2, <1>3, <2>1 DEF SettingInv
  <2>3. ResetTypeOK'
    BY <1>1, <1>3, <2>1 DEF ResetTypeOK
  <2>4. KeyInv'
    BY <1>1, <2>1 DEF KeyInv, Key
  <2>. QED
    BY <1>4, <1>5, <2>2, <2>3, <2>4
<1>. QED
  BY <1>7, <1>8, <1>9

\* The sketch's own writes of its word, of which an old bootloader's key is one
\* victim, and of the watchdog.
LEMMA SketchPreserves ==
  ASSUME TouchInv,
         \/ \E v \in SketchData : WriteWord(v)
         \/ \E w \in {"off", "sketch"} : SetWatchdog(w)
  PROVE  TouchInv'
<1> USE DEF TouchInv, cpu, watchdog, bootloader
<1>1. ASSUME NEW v \in SketchData, WriteWord(v) PROVE TouchInv'
  <2>1. /\ running = "sketch" /\ UNCHANGED <<newBootloader, running, mcusr_state>>
        /\ UNCHANGED <<present, wdtcsr, elapsed, wdtcsr_save, Timeout, doing, own>>
        /\ UNCHANGED touched /\ mine' = v
        /\ word' = [word EXCEPT !["pos"] = v]
        /\ overwritten' = (overwritten \/ word["pos"] = "key")
        /\ disturbed' = IF overwritten' THEN disturbed \cup {"overwritten"}
                        ELSE disturbed
    BY <1>1 DEF WriteWord
  <2>2. /\ word' \in [Words -> Values] /\ word'["pos"] = v /\ v # "key"
        /\ word'["ramend"] = word["ramend"]
    BY <2>1 DEF ResetTypeOK, Words, Values, SketchData
  <2>3. overwritten' \in BOOLEAN /\ disturbed' \subseteq Disturbances
        /\ (disturbed' = {} => disturbed = {} /\ ~overwritten')
    BY <2>1 DEF ResetTypeOK, Disturbances
  <2>4. ResetTypeOK'
    BY <2>1, <2>2, <2>3 DEF ResetTypeOK, Values
  <2>5. Key' = Key /\ Key = IF newBootloader THEN "ramend" ELSE "pos"
    BY <2>1 DEF Key
  <2>6. word["pos"] = "key" => touched /\ ~newBootloader
    BY <2>1, <2>5 DEF KeyInv, ResetTypeOK, SketchData
  <2>7. KeyInv'
    <3>1. CASE newBootloader
      <4>1. ~overwritten /\ ~overwritten' /\ Key = "ramend"
        BY <2>1, <2>5, <2>6, <3>1 DEF KeyInv
      <4>. QED
        BY <2>1, <2>2, <2>5, <4>1 DEF KeyInv
    <3>2. CASE ~newBootloader
      <4>1. Key = "pos" /\ (overwritten' <=> touched)
        BY <2>1, <2>5, <2>6, <3>2 DEF KeyInv
      <4>. QED
        BY <2>1, <2>2, <2>5, <3>2, <4>1 DEF KeyInv
    <3>. QED
      BY <3>1, <3>2
  <2>8. SettingInv' /\ CauseInv'
    BY <2>1, <2>3 DEF SettingInv, CauseInv
  <2>. QED
    BY <2>1, <2>3, <2>4, <2>7, <2>8
<1>2. ASSUME NEW w \in {"off", "sketch"}, SetWatchdog(w) PROVE TouchInv'
  <2>1. /\ running = "sketch" /\ UNCHANGED <<newBootloader, running, mcusr_state>>
        /\ UNCHANGED <<present, word, wdtcsr_save, Timeout, doing, mine, touched>>
        /\ UNCHANGED overwritten
        /\ wdtcsr' = w /\ own' = w /\ elapsed' = 0
        /\ disturbed' = IF touched THEN disturbed \cup {"retimed"} ELSE {}
    BY <1>2 DEF SetWatchdog
  <2>2. disturbed' \subseteq Disturbances /\ (disturbed' = {} => ~touched)
    BY <2>1 DEF ResetTypeOK, Disturbances
  <2>3. ResetTypeOK'
    BY <2>1, <2>2 DEF ResetTypeOK
  <2>4. KeyInv' /\ CauseInv'
    BY <2>1 DEF KeyInv, CauseInv, Key
  <2>5. SettingInv'
    BY <2>1, <2>2 DEF KeyInv, SettingInv
  <2>. QED
    BY <2>1, <2>3, <2>4, <2>5
<1>. QED
  BY <1>1, <1>2

\* What is forgotten at every start.
LEMMA AfreshTypes ==
  ASSUME Afresh
  PROVE  /\ wdtcsr' = "off" /\ elapsed' = 0 /\ wdtcsr_save' = "off" /\ own' = "off"
         /\ elapsed' \in 0 .. WdtPeriod
         /\ mine' = "first" /\ mine' \in SketchData /\ disturbed' = {}
         /\ disturbed' \subseteq Disturbances
         /\ touched' = FALSE /\ overwritten' = FALSE
BY DEF Afresh, SketchData

\* A sketch starts with its word of RAM written and no key.
LEMMA StartPreserves ==
  ASSUME TouchInv, NEW ram \in [Words -> Values],
         ram[Key] # "key", StartSketch(ram), mcusr_state' = {}
  PROVE  TouchInv'
<1>1. word' \in [Words -> Values]
  BY DEF StartSketch, Words, Values, SketchData
<1>2. word'["pos"] = "first" /\ word'[Key] # "key"
  BY DEF StartSketch, Words, Key
<1>3. /\ running' = "sketch" /\ UNCHANGED <<newBootloader, present>>
      /\ Timeout' = 0 /\ doing' = "loop" /\ doing' \in Places /\ Afresh
  BY DEF StartSketch, NoCommand, Places
<1>4. Timeout' \in 0 .. BootPeriod + 1
  BY <1>3
<1>5. ResetTypeOK'
  BY <1>1, <1>3, <1>4, AfreshTypes DEF TouchInv, ResetTypeOK, Values
<1>6. Key' = Key /\ Key = IF newBootloader THEN "ramend" ELSE "pos"
  BY <1>3 DEF Key
<1>7. KeyInv' /\ SettingInv' /\ CauseInv'
  BY <1>2, <1>3, <1>6, AfreshTypes DEF KeyInv, SettingInv, CauseInv
<1>. QED
  BY <1>3, <1>5, <1>7, AfreshTypes DEF TouchInv

\* The bootloader clears the key on every way through its decision.
LEMMA DecidePreserves ==
  ASSUME TouchInv, Decide PROVE TouchInv'
<1>1. /\ WithoutKey \in [Words -> Values]
      /\ WithoutKey[Key] # "key"
  BY KeyIsWord DEF WithoutKey, TouchInv, ResetTypeOK, Values
<1>2. CASE Skip(mcusr_state, word[Key])
  BY <1>1, <1>2, StartPreserves DEF Decide
<1>3. CASE ~Skip(mcusr_state, word[Key])
  <2>1. /\ running' = "boot" /\ mcusr_state' = {} /\ word' = WithoutKey
        /\ UNCHANGED <<newBootloader, present>> /\ Afresh
        /\ Timeout' = 0 /\ doing' = "loop" /\ doing' \in Places
    BY <1>3 DEF Decide, NoCommand, Places
  <2>2. Timeout' \in 0 .. BootPeriod + 1 /\ Key' = Key
    BY <2>1 DEF Key
  <2>3. ResetTypeOK'
    BY <1>1, <2>1, <2>2, AfreshTypes DEF TouchInv, ResetTypeOK, Values
  <2>4. KeyInv' /\ SettingInv' /\ CauseInv'
    BY <1>1, <2>1, <2>2 DEF KeyInv, SettingInv, CauseInv
  <2>. QED
    BY <2>1, <2>3, <2>4, AfreshTypes DEF TouchInv
<1>. QED
  BY <1>2, <1>3

\* Any reset leaves the key to the bootloader's decision.
LEMMA ResetPreserves ==
  ASSUME TouchInv, WatchdogResets \/ Button \/ PowerOn
  PROVE  TouchInv'
<1>1. /\ running' = "reset" /\ NoCommand
      /\ UNCHANGED <<newBootloader, present, wdtcsr, elapsed, wdtcsr_save>>
      /\ UNCHANGED <<own, mine, touched, overwritten, disturbed>>
      /\ word' \in {word, [w \in Words |-> "nothing"]}
      /\ mcusr_state' \in {{"WDRF"}, {"EXTRF"}, {"PORF"}}
  BY DEF WatchdogResets, Button, PowerOn, Reset, watchdog, hist
<1>2. ResetTypeOK'
  BY <1>1 DEF NoCommand, TouchInv, ResetTypeOK, Places, Words
<1>3. mcusr_state' = {"WDRF"} =>
        running = "sketch" /\ word' = word /\ Key' = Key
  BY <1>1 DEF WatchdogResets, Button, PowerOn, Reset, Key
<1>4. CauseInv'
  BY <1>1, <1>3 DEF TouchInv, KeyInv, CauseInv
<1>. QED
  BY <1>1, <1>2, <1>4 DEF TouchInv, KeyInv, SettingInv

\* The bootloader's commands, whatever the host does with them.
LEMMA CommandPreserves ==
  ASSUME TouchInv,
         \/ CountTimeout \/ Exit \/ Erase \/ Block \/ Other
         \/ Serves \/ Unattached \/ Cable
  PROVE  TouchInv'
<1> DEFINE Elsewhere ==
      /\ UNCHANGED <<newBootloader, running, mcusr_state, word, wdtcsr, elapsed>>
      /\ UNCHANGED <<wdtcsr_save, own, mine, touched, overwritten, disturbed>>
      /\ running = "boot"
    Good ==
      /\ present' \in BOOLEAN /\ doing' \in Places
      /\ Timeout' \in 0 .. BootPeriod + 1
<1>0. /\ present \in BOOLEAN /\ doing \in Places /\ Timeout \in 0 .. BootPeriod + 1
      /\ BootPeriod - 1 \in 0 .. BootPeriod + 1 /\ 0 \in 0 .. BootPeriod + 1
  BY DEF TouchInv, ResetTypeOK
<1>. /\ "loop" \in Places /\ "argument" \in Places /\ "size" \in Places
     /\ "block" \in Places /\ "answer" \in Places
  BY DEF Places
<1>1. ASSUME CountTimeout PROVE Elsewhere /\ Good
  <2>1. Elsewhere /\ UNCHANGED <<present, doing>> /\ Timeout' = Timeout + 1
    BY <1>1 DEF CountTimeout, cpu, watchdog, hist
  <2>2. Timeout <= BootPeriod
    BY <1>1 DEF CountTimeout
  <2>. QED
    BY <1>0, <2>1, <2>2
<1>2. ASSUME NEW t \in 0 .. BootPeriod + 1, NEW p \in BOOLEAN, NEW q \in Places,
             HostCommand(t, p, q)
      PROVE  Elsewhere /\ Good
  BY <1>2 DEF HostCommand, InLoop, cpu, watchdog, hist
<1>3. ASSUME Exit \/ Erase \/ Block PROVE Elsewhere /\ Good
  BY <1>0, <1>2, <1>3 DEF Exit, Erase, Block
<1>4. ASSUME Other PROVE Elsewhere /\ Good
  BY <1>0, <1>2, <1>4 DEF Other
<1>5. ASSUME NEW from, NEW p \in BOOLEAN, NEW q \in Places, Goes(from, p, q)
      PROVE  Elsewhere /\ Good
  BY <1>0, <1>5 DEF Goes, cpu, watchdog, hist
<1>6. ASSUME Serves \/ Unattached PROVE Elsewhere /\ Good
  BY <1>0, <1>5, <1>6 DEF Serves, Unattached, Waited
<1>7. ASSUME Cable PROVE Elsewhere /\ Good
  <2>1. Elsewhere /\ UNCHANGED <<present, doing, Timeout>>
    BY <1>7 DEF Cable, cpu, watchdog, hist
  <2>. QED
    BY <1>0, <2>1
<1>8. Elsewhere /\ Good
  BY <1>1, <1>3, <1>4, <1>6, <1>7
<1>9. ResetTypeOK'
  BY <1>8 DEF TouchInv, ResetTypeOK
<1>. QED
  BY <1>8, <1>9 DEF TouchInv, KeyInv, SettingInv, CauseInv, Key

LEMMA TouchPreserved ==
  ASSUME TouchInv, [ResetNext]_resetVars
  PROVE  TouchInv'
<1> USE DEF cpu, watchdog, usb, bootloader, hist
<1>1. ASSUME NEW r \in {1200, 57600}, SetLineCoding(r) PROVE TouchInv'
  BY <1>1 DEF SetLineCoding, TouchInv, ResetTypeOK, KeyInv,
    SettingInv, CauseInv, Key
<1>2. ASSUME NEW d \in BOOLEAN, SetControlLineState(d) PROVE TouchInv'
  BY <1>2, LineStatePreserves
<1>3. CASE Kick \/ Tick
  <2>1. /\ UNCHANGED <<newBootloader, running, mcusr_state, present, word, wdtcsr>>
        /\ UNCHANGED <<wdtcsr_save, Timeout, doing, own, mine, touched>>
        /\ UNCHANGED <<overwritten, disturbed>>
    BY <1>3 DEF Kick, Tick
  <2>2. elapsed' \in 0 .. WdtPeriod
    BY <1>3 DEF Kick, Tick, TouchInv, ResetTypeOK
  <2>3. ResetTypeOK'
    BY <2>1, <2>2 DEF TouchInv, ResetTypeOK
  <2>4. KeyInv' /\ SettingInv' /\ CauseInv'
    BY <2>1 DEF TouchInv, KeyInv, SettingInv, CauseInv, Key
  <2>. QED
    BY <2>1, <2>3, <2>4 DEF TouchInv
<1>4. CASE Leave /\ present
  <2>1. mcusr_state' = {} /\ word[Key] # "key" /\ StartSketch(word)
    BY <1>4 DEF Leave, InLoop, TouchInv, CauseInv
  <2>. QED
    BY <2>1, StartPreserves DEF TouchInv, ResetTypeOK, Values
<1>5. CASE Leave /\ ~present
  BY <1>5 DEF Leave, InLoop, TouchInv, ResetTypeOK, KeyInv, SettingInv,
    CauseInv, Key
<1>6. CASE UNCHANGED resetVars
  BY <1>6 DEF resetVars, TouchInv, ResetTypeOK, KeyInv, SettingInv,
    CauseInv, Key
<1>. QED
  BY <1>1, <1>2, <1>3, <1>4, <1>5, <1>6, SketchPreserves, ResetPreserves,
     DecidePreserves, CommandPreserves DEF ResetNext

\* Nothing of a touch that was called off is left behind: neither a key nor a
\* change of the sketch's word, whatever the sketch and the host do; and not the
\* watchdog of the touch, if nothing else befell it.
THEOREM TouchCorrect == ResetSpec => []TouchUndone
<1>1. TouchInv => TouchUndone
  BY DEF TouchInv, KeyInv, SettingInv, TouchUndone, MemoryRestored,
    WatchdogRestored
<1>. QED
  BY TouchInitially, TouchPreserved, <1>1, PTL DEF ResetSpec

\* After a watchdog reset main() of Caterina.c goes on in the bootloader exactly
\* if a touch asked for it whose key the sketch has not written over, or there
\* is no sketch.
THEOREM ProgramCorrect == ResetSpec => RightProgram
<1> DEFINE Asked == (touched /\ ~overwritten) \/ ~present
           Right ==
      running = "reset" /\ mcusr_state = {"WDRF"} /\ running' # "reset" =>
        (running' = "boot" <=> Asked)
<1>1. TouchInv /\ [ResetNext]_resetVars => [Right]_(resetVars)
  <2> SUFFICES ASSUME TouchInv, ResetNext, running = "reset",
                      mcusr_state = {"WDRF"}, running' # "reset"
               PROVE  running' = "boot" <=> Asked
    BY DEF Right
  <2>1. Decide
    BY DEF ResetNext, SetLineCoding, SetControlLineState, SetWatchdog, WriteWord,
      Kick, Tick, WatchdogResets, Button, PowerOn, CountTimeout, Leave, InLoop,
      Exit, Erase, Block, Other, HostCommand, Serves, Unattached, Waited, Goes,
      Cable, cpu
  <2>2. word[Key] = "key" <=> touched /\ ~overwritten
    BY DEF TouchInv, CauseInv
  <2>3. Skip(mcusr_state, word[Key]) <=> present /\ ~(touched /\ ~overwritten)
    BY <2>2 DEF Skip, Accidental
  <2>. QED
    BY <2>1, <2>3 DEF Decide, StartSketch, TouchInv,
      ResetTypeOK
<1>. QED
  BY TouchInitially, TouchPreserved, <1>1, PTL DEF ResetSpec,
    RightProgram

=============================================================================
