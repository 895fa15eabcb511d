-------------------------------- MODULE MCTwi --------------------------------
(***************************************************************************)
(* The instance of Twi for TLC.  A behaviour is that of one of the nodes   *)
(* in Roles: a master whose calls may time out, on a bus with other        *)
(* masters that do not address it; a slave, that only answers; a node that *)
(* is both, without time-outs or bus errors, and Alone: addressed between  *)
(* its own calls or while they wait for the driver; and the same one,      *)
(* addressed at any time ("racing").                                       *)
(***************************************************************************)
EXTENDS Twi

CONSTANT Roles
VARIABLE role

BothCalls == {"write", "read"}
Single == {1}
Writes == {"write"}

\* One byte, a full buffer and one too many; a read of none is apart.
WriteOrRead == {1, BufLen, BufLen + 1}

NeverTimesOut == {}
TimesOut == {[on |-> TRUE, reset |-> FALSE], [on |-> TRUE, reset |-> TRUE]}

ASSUME RolesAssumption == Roles \subseteq {"master", "slave", "both", "racing"}

MCInit == Init /\ role \in Roles

OnlyMaster == bus' # "addressed"

\* A slave that times out is reset.
OnlySlave ==
  pc' = "idle" /\ UNCHANGED <<call, len>> /\ (timeout'.on => timeout'.reset)

\* It writes one byte, and is sent or asked for one.
Both ==
  /\ ~timeout'.on /\ hw'.status # "BUS_ERROR"
  /\ call' = "write" /\ len' <= 1 /\ Len(taken') <= 1
  /\ Len(replied') <= 1 \/ hw'.status = "ST_DATA_NACK"

MCNext ==
  /\ Next /\ UNCHANGED role
  /\ role = "master" => OnlyMaster
  /\ role = "slave"  => OnlySlave
  /\ role \in {"both", "racing"} => Both
  /\ role = "both" => Alone'

\* Between two transfers the bus is free for far longer than a look at
\* twi_state takes.
MCSpec ==
  /\ MCInit /\ [][MCNext]_<<vars, role>>
  /\ WF_vars(Handler) /\ WF_vars(Running) /\ WF_vars(Bus)
  /\ WF_vars(GiveUp) /\ SF_vars(HwStart) /\ SF_vars(WaitReady)
=============================================================================
