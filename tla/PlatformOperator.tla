-------------------------- MODULE PlatformOperator --------------------------
(***************************************************************************)
(* deploy/operator: the reconciler of one OrchestackPlatform object.       *)
(* controller-runtime runs one Reconcile at a time for an object, again    *)
(* after every change and every 30 seconds; users change the object and    *)
(* the cluster changes the readiness of its parts while it runs.           *)
(*                                                                         *)
(* The API server is external: it rejects a write that is based on another *)
(* version of the object than the stored one (here: one that others have   *)
(* written since the round's fetch), and removes an object that is being   *)
(* deleted with its last finalizer.  reconcileHelmRelease is a stub that   *)
(* only logs and sets Progressing in the round's copy.                     *)
(***************************************************************************)
EXTENDS Naturals, FiniteSets

CONSTANTS
  PlatformParts,     \* Deployments and StatefulSets of the namespace
  Specs,             \* the sets of parts a spec may make the health check track
  MaxSpecChanges, MaxReadyChanges, MaxReadErrors  \* bounds

ASSUME OperatorAssumption ==
  /\ IsFiniteSet(PlatformParts) /\ Specs \subseteq SUBSET PlatformParts
  /\ {MaxSpecChanges, MaxReadyChanges, MaxReadErrors} \subseteq Nat

VARIABLES
  platform,    \* the stored object
  partReady,   \* parts whose ReadyReplicas reach the desired number, itself above 0
  round,       \* Reconcile: its place, its copy, whether others wrote since, its checks
  opChanges    \* changes and failed reads so far

operatorVars == <<platform, partReady, round, opChanges>>

Phases == {"Pending", "Deploying", "Running", "Degraded"}
Status == [phase : Phases, ready : BOOLEAN, degraded : BOOLEAN, progressing : BOOLEAN,
           observed : 0..MaxSpecChanges + 1, tracked : SUBSET PlatformParts]
NewStatus == [phase |-> "Pending", ready |-> FALSE, degraded |-> FALSE,
              progressing |-> FALSE, observed |-> 0, tracked |-> {}]

\* generation grows with every change of the spec.
NewPlatform(spec) == [exists |-> TRUE, generation |-> 1, spec |-> spec, deleting |-> FALSE,
                      finalizer |-> FALSE, status |-> NewStatus]
NoPlatform == [NewPlatform({}) EXCEPT !.exists = FALSE]
IdleRound == [pc |-> "idle", copy |-> NoPlatform, stale |-> FALSE, left |-> {}, healthy |-> {}]

OperatorInit ==
  /\ \E spec \in Specs : platform = NewPlatform(spec)
  /\ partReady = {}
  /\ round = IdleRound
  /\ opChanges = [spec |-> 0, ready |-> 0, read |-> 0]

-----------------------------------------------------------------------------
(* Users and the cluster.                                                    *)

\* A write of somebody else while Reconcile holds its copy.
WriteByUser(obj) ==
  /\ platform.exists /\ ~platform.deleting /\ opChanges.spec < MaxSpecChanges
  /\ platform' = obj
  /\ round' = [round EXCEPT !.stale = round.pc # "idle"]
  /\ opChanges' = [opChanges EXCEPT !.spec = @ + 1]
  /\ UNCHANGED partReady

ChangeSpec(spec) ==
  /\ spec # platform.spec
  /\ WriteByUser([platform EXCEPT !.spec = spec, !.generation = @ + 1])

DeletePlatform ==
  WriteByUser(IF platform.finalizer THEN [platform EXCEPT !.deleting = TRUE] ELSE NoPlatform)

ChangeReadiness(part) ==
  /\ opChanges.ready < MaxReadyChanges
  /\ partReady' \in {partReady \cup {part}, partReady \ {part}} \ {partReady}
  /\ opChanges' = [opChanges EXCEPT !.ready = @ + 1]
  /\ UNCHANGED <<platform, round>>

-----------------------------------------------------------------------------
(* Reconcile.                                                                *)

Check(copy) ==
  round' = [IdleRound EXCEPT !.pc = "check", !.copy = copy, !.left = copy.spec]

\* Mutant of FetchPlatform: an object whose generation was observed is left alone.
FetchPlatformMutant ==
  /\ round.pc = "idle" /\ platform.exists
  /\ platform.deleting \/ platform.generation # platform.status.observed
  /\ IF platform.deleting \/ ~platform.finalizer
     THEN round' = [IdleRound EXCEPT !.pc = "finalizer", !.copy = platform]
     ELSE Check(platform)
  /\ UNCHANGED <<platform, partReady, opChanges>>

\* An object that is gone ends the round; one that is being deleted and one
\* without the finalizer are written first.
FetchPlatform ==
  /\ round.pc = "idle" /\ platform.exists
  /\ IF platform.deleting \/ ~platform.finalizer
     THEN round' = [IdleRound EXCEPT !.pc = "finalizer", !.copy = platform]
     ELSE Check(platform)
  /\ UNCHANGED <<platform, partReady, opChanges>>

\* r.Update with the finalizer removed (reconcileDelete) or added; a conflict, or an
\* object that is gone, ends the round with an error, which starts another.
UpdateFinalizer ==
  LET finalized == [round.copy EXCEPT !.finalizer = TRUE]
  IN  /\ round.pc = "finalizer"
      /\ \/ round.stale /\ round' = IdleRound /\ UNCHANGED platform
         \/ /\ ~round.stale /\ round.copy.deleting
            /\ platform' = NoPlatform /\ round' = IdleRound
         \/ /\ ~round.stale /\ ~round.copy.deleting
            /\ platform' = finalized /\ Check(finalized)
      /\ UNCHANGED <<partReady, opChanges>>

\* AggregateHealth asks for one part after the other; one that cannot be read counts
\* as not ready.
CheckPart(part, isReady) ==
  /\ round.pc = "check" /\ part \in round.left
  /\ round' = [round EXCEPT !.left = @ \ {part},
                            !.healthy = IF isReady THEN @ \cup {part} ELSE @]
  /\ UNCHANGED <<platform, partReady>>

CheckHealth(part) == CheckPart(part, part \in partReady) /\ UNCHANGED opChanges

CheckHealthFails(part) ==
  /\ opChanges.read < MaxReadErrors
  /\ CheckPart(part, FALSE)
  /\ opChanges' = [opChanges EXCEPT !.read = @ + 1]

\* Progressing is set before the health check; only AllReady clears it, and only
\* AllReady clears Degraded.
StatusOfHealth(copy, healthy) ==
  LET allReady == healthy = copy.spec /\ healthy # {}
      anyReady == healthy # {}
  IN  [phase |-> IF allReady THEN "Running" ELSE IF anyReady THEN "Degraded" ELSE "Deploying",
       ready |-> allReady,
       degraded |-> ~allReady /\ (anyReady \/ copy.status.degraded),
       progressing |-> ~allReady,
       observed |-> copy.generation, tracked |-> copy.spec]

UpdateStatus ==
  /\ round.pc = "check" /\ round.left = {}
  /\ platform' = IF round.stale THEN platform
                 ELSE [platform EXCEPT !.status = StatusOfHealth(round.copy, round.healthy)]
  /\ round' = IdleRound
  /\ UNCHANGED <<partReady, opChanges>>

ReconcilePlatform ==
  \/ FetchPlatform \/ UpdateFinalizer \/ UpdateStatus
  \/ \E part \in PlatformParts : CheckHealth(part)

OperatorNext ==
  \/ \E spec \in Specs : ChangeSpec(spec)
  \/ DeletePlatform
  \/ \E part \in PlatformParts : ChangeReadiness(part) \/ CheckHealthFails(part)
  \/ ReconcilePlatform

OperatorSpec == OperatorInit /\ [][OperatorNext]_operatorVars

-----------------------------------------------------------------------------
Objects ==
  [exists : BOOLEAN, generation : 1..MaxSpecChanges + 1, spec : SUBSET PlatformParts,
   deleting : BOOLEAN, finalizer : BOOLEAN, status : Status]

OperatorTypeOK ==
  /\ platform \in Objects /\ partReady \subseteq PlatformParts
  /\ round \in [pc : {"idle", "finalizer", "check"}, copy : Objects, stale : BOOLEAN,
                left : SUBSET PlatformParts, healthy : SUBSET PlatformParts]
  /\ opChanges \in [spec : 0..MaxSpecChanges, ready : 0..MaxReadyChanges, read : 0..MaxReadErrors]

\* The phase a user reads is the health of what the current spec tracks.
StatusCurrent ==
  LET st == platform.status
  IN  /\ st.observed = platform.generation /\ st.tracked = platform.spec
      /\ st.ready = (platform.spec # {} /\ platform.spec \subseteq partReady)
      /\ (st.phase = "Running") = st.ready
      /\ st.degraded => ~st.ready

\* Once users and the cluster leave the object alone it is either gone or reports the
\* health of its current spec, whatever a round had read before: no conflict, lost
\* update or early return of Reconcile leaves a stale Running behind.
StatusConverges == <>[](IF platform.exists THEN ~platform.deleting /\ StatusCurrent ELSE TRUE)

=============================================================================
