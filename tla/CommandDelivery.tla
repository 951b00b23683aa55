--------------------------- MODULE CommandDelivery ---------------------------
(***************************************************************************)
(* What the delivery of a command promises its client, without numbers,    *)
(* check bytes or probes: every delivery returns a verdict, success is     *)
(* said only of a command the receiver has executed since it last had no   *)
(* power, and the receiver's radio changes its channel only because a      *)
(* channel command was executed or its power was cut.  That a channel      *)
(* lasts is not promised of a command that was executed while the receiver *)
(* was about to set an older channel (exposed): that one may come back.    *)
(***************************************************************************)
CONSTANTS
  Commands,  \* what the client may ask for
  Channels,  \* the commands that set a channel
  Home       \* channel of a receiver that has just booted

VARIABLES busy, cmd, executed, exposed, verdict, channel

vars == <<busy, cmd, executed, exposed, verdict, channel>>

Init ==
  /\ busy = FALSE /\ executed = FALSE /\ exposed = FALSE
  /\ verdict = "UNKNOWN" /\ channel = Home
  /\ cmd \notin Commands

Begin(c) ==
  /\ ~busy
  /\ busy' = TRUE /\ cmd' = c /\ executed' = FALSE /\ verdict' = "UNKNOWN"
  /\ UNCHANGED <<exposed, channel>>

\* Where the channel may go without a channel command.
Drift == IF exposed THEN Channels ELSE {channel}

\* The receiver executes the command, perhaps not for the first time.
Execute ==
  /\ busy
  /\ executed' = TRUE
  /\ \/ cmd \in Channels /\ channel' = cmd /\ exposed' \in BOOLEAN
     \/ cmd \notin Channels /\ channel' \in Drift /\ UNCHANGED exposed
  /\ UNCHANGED <<busy, cmd, verdict>>

\* An older channel comes back.
Revert ==
  /\ channel' \in Drift
  /\ UNCHANGED <<busy, cmd, executed, exposed, verdict>>

\* The receiver loses power, and with it the effect of the command.
Lose ==
  /\ executed' = FALSE /\ exposed' = FALSE /\ channel' = Home
  /\ UNCHANGED <<busy, cmd, verdict>>

Return(v) ==
  /\ busy
  /\ v = "SUCCESS" => executed
  /\ busy' = FALSE /\ verdict' = v
  /\ UNCHANGED <<cmd, executed, exposed, channel>>

\* The client itself restarts.
Abort ==
  /\ busy' = FALSE /\ executed' = FALSE /\ verdict' = "UNKNOWN"
  /\ cmd' \notin Commands
  /\ UNCHANGED <<exposed, channel>>

AnyReturn == \E v \in {"SUCCESS", "PROBES_OUT", "DISCONNECTED"} : Return(v)

Next ==
  \/ \E c \in Commands : Begin(c)
  \/ Execute \/ Revert \/ Lose \/ AnyReturn \/ Abort

Spec == Init /\ [][Next]_vars /\ WF_vars(AnyReturn)
=============================================================================
