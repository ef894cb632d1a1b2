-------------------------- MODULE SubrunLifecycle --------------------------
(***************************************************************************)
(* What a reader of the two records of a subrun may rely on: the status    *)
(* snapshot served by get_info() (phase) and the run document kept by the  *)
(* state store (verdict).  Nothing is said here of tasks, kills, retries,  *)
(* retention or restarts: SubrunLane implements this specification.        *)
(***************************************************************************)
CONSTANT Runs

VARIABLES phase, verdict

avars == <<phase, verdict>>

Terminal == {"completed", "failed", "timed_out", "cancelled"}
Phases == Terminal \cup {"none", "accepted", "running"}

\* The run document written together with a terminal status.
VerdictOf(s) == IF s = "completed" THEN "completed" ELSE "failed"

AInit == phase = [r \in Runs |-> "none"] /\ verdict = [r \in Runs |-> "none"]

Accept(r) == /\ phase[r] = "none" /\ verdict[r] = "none"
             /\ phase'[r] = "accepted" /\ verdict'[r] = "active"

Start(r) == /\ phase[r] = "accepted"
            /\ phase'[r] = "running" /\ verdict'[r] = verdict[r]

\* A terminal status and its verdict are published in one step.
Finish(r, s) == /\ phase[r] \in {"accepted", "running"}
                /\ s \in (IF phase[r] = "accepted" THEN {"failed"} ELSE Terminal)
                /\ phase'[r] = s /\ verdict'[r] = VerdictOf(s)

\* Retention drops the snapshot of a finished run; its document stays.
Forget(r) == /\ phase[r] \in Terminal
             /\ phase'[r] = "none" /\ verdict'[r] = verdict[r]

\* A run a restart declares failed may be dropped by retention at once.
FailAndForget(r) == /\ phase[r] \in {"accepted", "running"}
                    /\ phase'[r] = "none" /\ verdict'[r] = "failed"

\* A crash inside spawn() leaves a document that has no snapshot.
Orphan(r) == /\ phase[r] = "none" /\ verdict[r] = "none"
             /\ phase'[r] = "none" /\ verdict'[r] = "active"

Same(r) == phase'[r] = phase[r] /\ verdict'[r] = verdict[r]

Move(r) == \/ Same(r) \/ Accept(r) \/ Start(r) \/ Forget(r)
           \/ FailAndForget(r) \/ Orphan(r)
           \/ \E s \in Terminal : Finish(r, s)

ANext == \A r \in Runs : Move(r)

ASpec == AInit /\ [][ANext]_avars
=============================================================================
