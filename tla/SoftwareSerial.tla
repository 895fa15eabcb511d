--------------------------- MODULE SoftwareSerial ---------------------------
(***************************************************************************)
(* The receiving half of libraries/SoftwareSerial/src/SoftwareSerial.cpp:  *)
(* several ports with one receive ring and one listening port among them.  *)
(*                                                                         *)
(* The sketch runs its calls in the steps between which an interrupt can   *)
(* come; storing the two-byte pointer active_object takes two, and between *)
(* them it is Torn.  The pin-change handler receives a whole byte in one   *)
(* step, the interrupts being off meanwhile.                               *)
(*                                                                         *)
(* A change of a pin is latched in a flag and served later: one or two     *)
(* cycles, or as long as the interrupts are off, and then whether or not   *)
(* the pin is still enabled.  All the vectors are this handler's, so that  *)
(* it also runs for pins that others have enabled.                         *)
(*                                                                         *)
(* A byte is <<port, number>>: the ports number what they store in the     *)
(* ring, and give a garbled byte the number -1.                            *)
(***************************************************************************)
EXTENDS Integers, Sequences

CONSTANTS
  Ports,
  NULL, Torn,     \* no port; half of one pointer and half of another
  Size            \* _SS_MAX_RX_BUFF

ASSUME SoftwareSerialAssumption ==
  Size \in Nat /\ Size > 1 /\ Torn # NULL /\ {NULL, Torn} \cap Ports = {}

VARIABLES
  active_object,
  mask,                \* the port's bit in its pin-change mask register
  pcif,                \* pins with a change to serve; NULL: one of others
  delays,              \* "none" before begin(), "zero" inside it, "set"
  _receive_buffer, _receive_buffer_head, _receive_buffer_tail,
  _buffer_overflow,
  pc, this, reg,       \* the call, its port, its register
  \* history
  next, expected,      \* the next number to store; to read
  lost,                \* ports that dropped a byte since they began to listen
  disturbed,           \* a change was pending as ports began to change hands,
                       \* or one of another's pin came while they did
  astray               \* the handler has followed a torn pointer, from where
                       \* on nothing is said

ring == <<_receive_buffer, _receive_buffer_head, _receive_buffer_tail>>
call == <<pc, this, reg>>
pins == <<mask, pcif>>
history == <<next, expected, lost, disturbed, astray>>
vars == <<active_object, pins, delays, ring, _buffer_overflow, call, history>>

M == Size + 1
Index == 0 .. Size - 1
Following(i) == (i + 1) % Size

Goto(p) == pc' = p /\ UNCHANGED <<this, reg>>
Return == pc' = "idle" /\ this' = NULL /\ reg' = 0
Idle == pc = "idle"

\* From stopListening()'s first step to listen()'s last.
Switching == {"clear", "cleared", "reset", "head", "set", "unmask", "mask"}
Begins == disturbed' = (disturbed \/ pcif # {})

-----------------------------------------------------------------------------
(* begin(), listen(), stopListening() and end().                           *)

Begin(p) ==
  /\ Idle /\ pc' = "delays" /\ this' = p /\ UNCHANGED reg
  /\ delays' = [delays EXCEPT ![p] = "zero"]
  /\ UNCHANGED <<active_object, pins, ring, _buffer_overflow, history>>

BeginDelays ==
  /\ pc = "delays" /\ Goto("listen")
  /\ delays' = [delays EXCEPT ![this] = "set"]
  /\ UNCHANGED <<active_object, pins, ring, _buffer_overflow, history>>

CallListen(p) ==
  /\ Idle /\ pc' = "listen" /\ this' = p /\ UNCHANGED reg
  /\ UNCHANGED <<active_object, pins, delays, ring, _buffer_overflow, history>>

Listen ==
  /\ pc = "listen"
  /\ IF delays[this] = "none" \/ active_object = this
       THEN Return /\ UNCHANGED disturbed
     ELSE IF active_object = NULL THEN Goto("reset") /\ Begins
     ELSE Goto("stop") /\ UNCHANGED disturbed
  /\ UNCHANGED <<active_object, pins, delays, ring, _buffer_overflow, next,
                 expected, lost, astray>>

\* end(): the call stops where stopListening() returns.
End(p) ==
  /\ Idle /\ active_object = p /\ pc' = "stop" /\ UNCHANGED <<this, reg>>
  /\ UNCHANGED <<active_object, pins, delays, ring, _buffer_overflow, history>>

\* stopListening(): the mask goes off before the pointer changes.
Stopped_LeftOn == mask
Stopped == [mask EXCEPT ![active_object] = FALSE]

StopMask ==
  /\ pc = "stop" /\ Goto("clear") /\ mask' = Stopped /\ Begins
  /\ UNCHANGED <<active_object, pcif, delays, ring, _buffer_overflow, next,
                 expected, lost, astray>>

StopClear ==
  /\ pc \in {"clear", "cleared"}
  /\ IF pc = "clear"
       THEN active_object' = Torn /\ Goto("cleared")
       ELSE /\ active_object' = NULL
            /\ IF this = NULL THEN Return ELSE Goto("reset")
  /\ UNCHANGED <<pins, delays, ring, _buffer_overflow, history>>

ResetTail ==
  /\ pc = "reset" /\ Goto("head")
  /\ _buffer_overflow' = [_buffer_overflow EXCEPT ![this] = FALSE]
  /\ lost' = lost \ {this} /\ _receive_buffer_tail' = 0
  /\ UNCHANGED <<active_object, pins, delays, _receive_buffer,
                 _receive_buffer_head, next, expected, disturbed, astray>>

Head0_Kept == _receive_buffer_head
Head0 == 0

ResetHead ==
  /\ pc = "head" /\ Goto("set") /\ _receive_buffer_head' = Head0
  /\ expected' = next
  /\ UNCHANGED <<active_object, pins, delays, _receive_buffer,
                 _receive_buffer_tail, _buffer_overflow, next, lost, disturbed,
                 astray>>

ListenSet ==
  /\ pc \in {"set", "unmask"}
  /\ IF pc = "set" THEN active_object' = Torn /\ Goto("unmask")
                   ELSE active_object' = this /\ Goto("mask")
  /\ UNCHANGED <<pins, delays, ring, _buffer_overflow, history>>

ListenMask ==
  /\ pc = "mask" /\ Return /\ mask' = [mask EXCEPT ![this] = TRUE]
  /\ UNCHANGED <<active_object, pcif, delays, ring, _buffer_overflow, history>>

-----------------------------------------------------------------------------
(* read().                                                                 *)

Empty == _receive_buffer_head = _receive_buffer_tail

Read(p) ==
  /\ Idle /\ active_object = p /\ ~Empty
  /\ pc' = "load" /\ reg' = _receive_buffer_head /\ UNCHANGED this
  /\ UNCHANGED <<active_object, pins, delays, ring, _buffer_overflow, history>>

Load ==
  /\ pc = "load" /\ Goto("advance")
  /\ expected' = (expected + 1) % M
  /\ UNCHANGED <<active_object, pins, delays, ring, _buffer_overflow, next,
                 lost, disturbed, astray>>

Advance ==
  /\ pc = "advance" /\ Return
  /\ _receive_buffer_head' = Following(_receive_buffer_head)
  /\ UNCHANGED <<active_object, pins, delays, _receive_buffer,
                 _receive_buffer_tail, _buffer_overflow, history>>

-----------------------------------------------------------------------------
(* A pin changes; handle_interrupt() and recv().                           *)

Change(p) ==
  /\ p \in {NULL} \cup {q \in Ports : mask[q]}
  /\ pcif' = pcif \cup {p}
  /\ disturbed' = (disturbed \/ (p = NULL /\ pc \in Switching))
  /\ UNCHANGED <<active_object, mask, delays, ring, _buffer_overflow, call, next,
                 expected, lost, astray>>

\* Sampled late, what is sampled is not the byte; nor is it with delays of 0,
\* which make the longest loop.
Decoded(p) ==
  {<<p, -1>>} \cup (IF delays[p] = "set" THEN {<<p, next>>} ELSE {})

\* "if buffer full, set the overflow flag and return".
Recv(p) ==
  IF Following(_receive_buffer_tail) # _receive_buffer_head
    THEN /\ \E byte \in Decoded(p) :
              _receive_buffer' = [_receive_buffer EXCEPT
                                    ![_receive_buffer_tail] = byte]
         /\ _receive_buffer_tail' = Following(_receive_buffer_tail)
         /\ next' = (next + 1) % M
         /\ UNCHANGED <<_receive_buffer_head, _buffer_overflow, lost>>
    ELSE /\ _buffer_overflow' = [_buffer_overflow EXCEPT ![p] = TRUE]
         /\ lost' = lost \cup {p}
         /\ UNCHANGED <<ring, next>>

\* The receiver's line need not be low: "interrupt is probably not for us".
PinChange(p) ==
  /\ p \in pcif /\ pcif' = pcif \ {p}
  /\ astray' = (astray \/ active_object = Torn)
  /\ \/ /\ active_object \in Ports /\ Recv(active_object)
        /\ mask' = [mask EXCEPT ![active_object] = TRUE]
     \/ UNCHANGED <<mask, ring, _buffer_overflow, next, lost>>
  /\ UNCHANGED <<active_object, delays, call, expected, disturbed>>

-----------------------------------------------------------------------------
Init ==
  /\ active_object = NULL /\ mask = [p \in Ports |-> FALSE] /\ pcif = {}
  /\ delays = [p \in Ports |-> "none"]
  /\ _receive_buffer = [i \in Index |-> <<>>]
  /\ _receive_buffer_head = 0 /\ _receive_buffer_tail = 0
  /\ _buffer_overflow = [p \in Ports |-> FALSE]
  /\ pc = "idle" /\ this = NULL /\ reg = 0
  /\ next = 0 /\ expected = 0 /\ lost = {}
  /\ disturbed = FALSE /\ astray = FALSE

Step ==
  \/ \E p \in Ports : Begin(p) \/ CallListen(p) \/ End(p) \/ Read(p)
  \/ \E p \in Ports \cup {NULL} : Change(p) \/ PinChange(p)
  \/ BeginDelays \/ Listen \/ StopMask \/ StopClear \/ ResetTail \/ ResetHead
  \/ ListenSet \/ ListenMask \/ Load \/ Advance

\* A torn pointer has been followed: the program may do anything.
Next == IF astray THEN UNCHANGED vars ELSE Step

Spec == Init /\ [][Next]_vars

-----------------------------------------------------------------------------
(* Properties.                                                             *)

TypeOK ==
  /\ active_object \in Ports \cup {NULL, Torn} /\ mask \in [Ports -> BOOLEAN]
  /\ pcif \subseteq Ports \cup {NULL}
  /\ _receive_buffer_head \in Index /\ _receive_buffer_tail \in Index
  /\ this \in Ports \cup {NULL} /\ reg \in Index /\ next \in 0 .. M - 1
  /\ pc \in {"idle", "delays", "listen", "stop", "clear", "cleared", "reset",
             "head", "set", "unmask", "mask", "load", "advance"}

\* Whatever changes, between calls the pin of the listening port raises
\* interrupts.  If no change is pending as ports begin to change hands and none
\* of another's pin comes while they do, the handler never follows a pointer of
\* which one byte is stored, and between calls no other port's pin raises them.
SwitchSafe ==
  /\ TypeOK
  /\ Idle /\ ~astray => \A p \in Ports : active_object = p => mask[p]
  /\ ~disturbed =>
       /\ ~astray
       /\ Idle => \A p \in Ports : mask[p] => active_object = p

\* The bytes between head and tail.
Unread ==
  LET used == (_receive_buffer_tail + Size - _receive_buffer_head) % Size
  IN  [i \in 1 .. used |-> _receive_buffer[(_receive_buffer_head + i - 1) % Size]]

\* What read() finds was received by the port it is called on since that port
\* began to listen, in order and once; a byte that found no room is reported by
\* the port it came to.  A byte sampled late or under begin() may be garbled; a
\* handler that followed a torn pointer is the only thing that ends all this.
RingFaithful ==
  ~astray =>
  /\ pc = "idle" /\ active_object # NULL =>
       \A i \in DOMAIN Unread :
         Unread[i] \in {<<active_object, (expected + i - 1) % M>>,
                        <<active_object, -1>>}
  /\ pc = "load" => reg = _receive_buffer_head /\ Unread[1][1] = active_object
  /\ \A p \in lost : _buffer_overflow[p]

-----------------------------------------------------------------------------
(* What the comments say, and the code does not do.                        *)

\* SoftwareSerial.cpp:358, "others might also need it, so we disable the
\* interrupt by using the per-pin PCMSK register": of a port that does not
\* listen.
StoppedDisabled == Idle => \A p \in Ports : mask[p] => active_object = p

\* SoftwareSerial.cpp:85, "sets the current object as the listening one": what
\* the handler calls is the port that listened, the one that listens, or none.
ReceiverWhole == ~astray
=============================================================================
