-------------------------- MODULE CanonicalWorld --------------------------
(* The canonical world: one pointer row that names the quilt everybody enters, its status
   and its generation. Every command on it is one transaction that first takes the
   advisory lock canonical-world, so that a command is one step here. The initializer of a
   deployment strings several commands together and can stop between any two of them;
   several may run, beside an operator at the command line. *)
EXTENDS Integers, FiniteSets

CONSTANTS
  Initializer,  \* executions of the deployment's initializer
  Quilt,        \* identifiers a provisioned quilt may get
  Geometry,     \* sizes a quilt may be provisioned with
  Deployed,     \* the size the initializer asks for
  NoQuilt,
  CrashBound    \* how often initializers stop between two commands

ASSUME WorldAssumption ==
  /\ Deployed \in Geometry
  /\ NoQuilt \notin Quilt
  /\ CrashBound \in Nat

VARIABLES
  pointer,  \* the canonical_world row; status "missing" when there is none
  claimed,  \* a patch of the world has been claimed or assigned
  job,      \* the executions of the initializer
  crashes

world == <<pointer, claimed>>
worldVars == <<pointer, claimed, job, crashes>>

NoPointer == [status |-> "missing", generation |-> 0, quilt |-> NoQuilt, geometry |-> Deployed]
Asking == [at |-> "status", quilt |-> NoQuilt, expected |-> 0]

WorldTypeOK ==
  /\ pointer \in [status: {"missing", "inactive", "active"}, generation: 0..3,
                  quilt: Quilt \cup {NoQuilt}, geometry: Geometry]
  /\ claimed \in BOOLEAN
  /\ job \in [Initializer ->
       [at: {"status", "provision", "activate", "succeeded", "refused", "crashed"},
        quilt: Quilt \cup {NoQuilt}, expected: 0..3]]
  /\ crashes \in 0..CrashBound

WorldInit ==
  /\ pointer = NoPointer
  /\ claimed = FALSE
  /\ job = [i \in Initializer |-> Asking]
  /\ crashes = 0

-----------------------------------------------------------------------------
(* Commands: what each does to the pointer, and which calls it accepts *)

\* discoverCanonicalWorld: the world a client may enter.
Discoverable == pointer.status = "active"

\* Mutant: provisioning knows no repetition.
NotRepeated(g) == FALSE

\* validateCanonicalTargetWithDatabase: a quilt these commands made is always a valid target;
\* it is exactly as provisioned until a patch of it finds an owner.
Untouched == ~claimed

\* provisionCanonicalWorld: a first call, or the repetition of one nothing has followed.
CanProvision == pointer.status = "missing"
JustProvisioned(g) ==
  /\ pointer.status = "inactive" /\ pointer.generation = 1
  /\ pointer.geometry = g /\ Untouched

\* Mutant: any inactive world can be activated under its own generation.
CanReactivate(q, expected) ==
  pointer.status = "inactive" /\ pointer.generation = expected /\ pointer.quilt = q

\* activateCanonicalWorld: the one activation of a provisioned world, or its repetition.
CanActivate(q, expected) ==
  /\ pointer.status = "inactive" /\ pointer.generation = 1
  /\ expected = 1 /\ pointer.quilt = q
JustActivated(q, expected) ==
  /\ pointer.status = "active" /\ pointer.generation = 2
  /\ expected = 1 /\ pointer.quilt = q

\* deactivateCanonicalWorld, under the generation the operator has seen.
CanDeactivate(expected) == pointer.status = "active" /\ pointer.generation = expected

SetProvisioned(q, g) ==
  pointer' = [status |-> "inactive", generation |-> 1, quilt |-> q, geometry |-> g]
SetActive == pointer' = [pointer EXCEPT !.status = "active", !.generation = 2]
\* Mutant: the generation is counted twice.
SetInactiveTwice(expected) ==
  pointer' = [pointer EXCEPT !.status = "inactive", !.generation = expected + 2]
SetInactive(expected) ==
  pointer' = [pointer EXCEPT !.status = "inactive", !.generation = expected + 1]

\* A command of the operator's; one that is refused or repeats the last changes nothing.
Operate ==
  /\ \/ \E q \in Quilt, g \in Geometry : CanProvision /\ SetProvisioned(q, g)
     \/ \E q \in Quilt, e \in 0..3 : CanActivate(q, e) /\ SetActive
     \/ \E e \in 0..2 : CanDeactivate(e) /\ SetInactive(e)
  /\ UNCHANGED <<claimed, job, crashes>>

\* A patch finds an owner, which a claim by its id does even while the world is inactive:
\* the world is no longer exactly as it was provisioned.
Claim ==
  /\ pointer.status # "missing" /\ ~claimed
  /\ claimed' = TRUE
  /\ UNCHANGED <<pointer, job, crashes>>

-----------------------------------------------------------------------------
(* The initializer: what each call of runCanonicalWorldInitializer does *)

Move(i, row) == job' = [job EXCEPT ![i] = row]
End(i, at) == Move(i, [Asking EXCEPT !.at = at])
ToActivate(q, expected) == [at |-> "activate", quilt |-> q, expected |-> expected]

\* Mutant: a world that exists is taken for one that is up.
ExistsIsUp(i) ==
  /\ job[i].at = "status"
  /\ \/ pointer.status = "missing" /\ Move(i, [Asking EXCEPT !.at = "provision"])
     \/ pointer.status # "missing" /\ End(i, "succeeded")
  /\ UNCHANGED <<world, crashes>>

Status(i) ==
  /\ job[i].at = "status"
  /\ \/ pointer.status = "missing" /\ Move(i, [Asking EXCEPT !.at = "provision"])
     \/ pointer.status = "active" /\ End(i, "succeeded")
     \/ pointer.status = "inactive" /\ Move(i, ToActivate(pointer.quilt, pointer.generation))
  /\ UNCHANGED <<world, crashes>>

Provision(i) ==
  /\ job[i].at = "provision"
  /\ \/ \E q \in Quilt : CanProvision /\ SetProvisioned(q, Deployed) /\ Move(i, ToActivate(q, 1))
     \/ JustProvisioned(Deployed) /\ Move(i, ToActivate(pointer.quilt, 1)) /\ UNCHANGED pointer
     \/ ~CanProvision /\ ~JustProvisioned(Deployed) /\ End(i, "refused") /\ UNCHANGED pointer
  /\ UNCHANGED <<claimed, crashes>>

Activate(i) ==
  /\ job[i].at = "activate"
  /\ LET q == job[i].quilt
         e == job[i].expected
     IN \/ CanActivate(q, e) /\ SetActive /\ End(i, "succeeded")
        \/ JustActivated(q, e) /\ End(i, "succeeded") /\ UNCHANGED pointer
        \/ ~CanActivate(q, e) /\ ~JustActivated(q, e) /\ End(i, "refused") /\ UNCHANGED pointer
  /\ UNCHANGED <<claimed, crashes>>

\* The execution is stopped, or loses the answer to its last command.
Crash(i) ==
  /\ job[i].at \in {"status", "provision", "activate"} /\ crashes < CrashBound
  /\ End(i, "crashed") /\ crashes' = crashes + 1
  /\ UNCHANGED world

\* The deployment is run again.
Rerun(i) ==
  /\ job[i].at = "crashed"
  /\ Move(i, Asking)
  /\ UNCHANGED <<world, crashes>>

Execute(i) == Status(i) \/ Provision(i) \/ Activate(i)

WorldNext ==
  \/ Operate \/ Claim
  \/ \E i \in Initializer : Execute(i) \/ Crash(i) \/ Rerun(i)

\* Executions run and a deployment that crashed is repeated; what operators do is up to them.
WorldFairness == \A i \in Initializer : WF_worldVars(Execute(i)) /\ WF_worldVars(Rerun(i))

WorldSpec == WorldInit /\ [][WorldNext]_worldVars /\ WorldFairness

-----------------------------------------------------------------------------
(* Properties *)

\* An initializer is refused only when the world is up already, has been taken down, or an
\* operator or an early claim made it differ from what the deployment asks for. Concurrent
\* deployments and crashes between provisioning and activation refuse none of them.
RefusedForAReason ==
  (\E i \in Initializer : job[i].at = "refused") =>
    \/ pointer.generation >= 2
    \/ pointer.geometry # Deployed
    \/ claimed

\* The pointer never goes to another quilt and, once an operator has taken the world
\* down, no command or initializer brings it up again (activation asks for generation 1).
NeverReplaced ==
  [][/\ pointer.status # "missing" => pointer'.quilt = pointer.quilt
     /\ pointer.generation = 3 => pointer' = pointer]_worldVars

\* Deployments bring the world up, whatever stops them on the way, unless they are refused.
WorldComesUp ==
  <>(pointer.generation >= 2 \/ \A i \in Initializer : job[i].at = "refused")
=============================================================================
