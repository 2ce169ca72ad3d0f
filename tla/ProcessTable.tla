---------------------------- MODULE ProcessTable ----------------------------
(***************************************************************************)
(* What the process manager promises its callers, without slots, page        *)
(* tables or a scheduler: pids are issued once, every live process owns a    *)
(* non-empty set of frames that nobody else has, and a process keeps what    *)
(* it owns until it is killed.  The machine stops when the last process is  *)
(* killed, and fails when the caller kills itself among others; that a kill *)
(* of a pid that is already dead may fail too is the one thing the code      *)
(* does that its comments do not promise.                                  *)
(***************************************************************************)
EXTENDS Integers

CONSTANTS Memory,   \* the frames processes can own
          Caller    \* the pid of the process that issues the calls

VARIABLES owner,    \* from live pids to the frames they own
          issued,   \* the last pid issued
          power,    \* "boot", "run", "off", "fault"
          reply     \* the value of the last call

tvars == <<owner, issued, power, reply>>

Live == DOMAIN owner

Owned == UNION {owner[p] : p \in Live}

Init ==
  /\ owner = [p \in {} |-> {}]
  /\ issued = 0
  /\ power = "boot"
  /\ reply = 0

\* A new pid, and frames that nobody owned.
Grant ==
  /\ issued' = issued + 1
  /\ DOMAIN owner' = Live \cup {issued + 1}
  /\ \A p \in Live : owner'[p] = owner[p]
  /\ owner'[issued + 1] \in (SUBSET (Memory \ Owned)) \ {{}}

Start == power = "boot" /\ Grant /\ power' = "run" /\ UNCHANGED reply

Spawn == power = "run" /\ Grant /\ reply' = 0 /\ UNCHANGED power

Refuse == power = "run" /\ reply' \in 1 .. 3 /\ UNCHANGED <<owner, issued, power>>

Kill(p) ==
  /\ power = "run"
  /\ p \in Live
  /\ owner' = [q \in Live \ {p} |-> owner[q]]
  /\ power' = IF Live = {p} THEN "off" ELSE IF p = Caller THEN "fault" ELSE "run"
  /\ reply' = 1
  /\ UNCHANGED issued

KillMissed == power = "run" /\ reply' = 0 /\ UNCHANGED <<owner, issued, power>>

\* Only for a pid that was issued and is dead.
KillFailed ==
  /\ power = "run"
  /\ \E p \in 1 .. issued : p \notin Live
  /\ power' = "fault"
  /\ UNCHANGED <<owner, issued, reply>>

Next == Start \/ Spawn \/ Refuse \/ (\E p \in 1 .. issued : Kill(p)) \/ KillMissed \/ KillFailed

Spec == Init /\ [][Next]_tvars
=============================================================================
