-------------------------- MODULE ModelPullProofs ---------------------------
(***************************************************************************)
(* Proofs about ModelPull. The strengthening says what a pull knows of the *)
(* models behind it, and a generation of those it has looked at: both only *)
(* ever grow truer, because the one way an artifact changes is to become   *)
(* the declared bytes.                                                     *)
(***************************************************************************)
EXTENDS ModelPull, TLAPS

\* The run is at a model while it hashes, downloads or verifies.
AtModel == \A r \in Runs : pc[r] \in {"hashing", "downloading", "verifying"} => at[r] \in Models

\* Every model behind a run is whole; one that has finished has them all behind it.
BehindIsWhole ==
    \A r \in Runs : /\ \A m \in Models : m < at[r] => artifact[m] = Expected[m]
                    /\ pc[r] = "done" => at[r] \notin Models

\* The bytes a run is hashing, if they are the declared ones, are still in place.
HeldIsThere ==
    \A r \in Runs : pc[r] = "hashing" /\ held[r] = Expected[at[r]]
                        => artifact[at[r]] = Expected[at[r]]

\* What a generation did not miss is there, and it writes only after the check.
LookedIsThere ==
    /\ \A m \in looked \ missing : artifact[m] # Absent
    /\ gpc = "writing" => looked = Models /\ (require => missing = {})

PullInv == BehindIsWhole /\ HeldIsThere

GenerationInv == LookedIsThere /\ RequiredModelsAreThere

(***************************************************************************)
(* Every variable stays in its set, and a run that hashes, downloads or    *)
(* verifies is at one of the pack's models.                                *)
(***************************************************************************)
THEOREM TypeCorrect == Spec => [](TypeOK /\ AtModel)
<1> USE PullAssumption DEF Models, TypeOK, AtModel, RunPC, GenPC
<1>1. Init => TypeOK /\ AtModel
  <2> SUFFICES ASSUME Init PROVE TypeOK /\ AtModel
    OBVIOUS
  <2>1. 1 \in 1 .. N + 1
    OBVIOUS
  <2>2. artifact \in [Models -> Contents \cup {Absent}] /\ forced \in [Runs -> BOOLEAN]
    BY DEF Init
  <2>3. part = [r \in Runs |-> Absent] /\ pc = [r \in Runs |-> "idle"] /\ at = [r \in Runs |-> 1]
        /\ held = [r \in Runs |-> Absent]
    BY DEF Init
  <2>4. config = Absent /\ gpc = "idle" /\ looked = {} /\ missing = {} /\ require = FALSE
        /\ found = Absent
    BY DEF Init
  <2> QED BY <2>1, <2>2, <2>3, <2>4
<1>2. (TypeOK /\ AtModel) /\ [Next]_vars => (TypeOK /\ AtModel)'
  <2> SUFFICES ASSUME TypeOK, AtModel, [Next]_vars PROVE TypeOK' /\ AtModel'
    OBVIOUS
  <2>1. ASSUME NEW r \in Runs, Pull(r) PROVE TypeOK' /\ AtModel'
    <3> USE DEF Goto, Advance, generation
    <3>1. CASE Start(r) BY <3>1 DEF Start
    <3>2. CASE RefuseModel(r) BY <3>2 DEF RefuseModel
    <3>3. CASE OpenPresent(r) BY <3>3 DEF OpenPresent
    <3>4. CASE AcceptPresent(r) BY <3>4 DEF AcceptPresent
    <3>5. CASE RejectPresent(r) BY <3>5 DEF RejectPresent
    <3>6. CASE OpenPart(r) BY <3>6 DEF OpenPart
    <3>7. CASE Download(r) BY <3>7 DEF Download
    <3>8. CASE Install(r) BY <3>8 DEF Install
    <3>9. CASE Discard(r) BY <3>9 DEF Discard
    <3>10. CASE Finish(r) BY <3>10 DEF Finish
    <3>11. CASE Interrupt(r) BY <3>11 DEF Interrupt
    <3>12. CASE Strand(r) BY <3>12 DEF Strand
    <3> QED
      BY <2>1, <3>1, <3>2, <3>3, <3>4, <3>5, <3>6, <3>7, <3>8, <3>9, <3>10, <3>11, <3>12 DEF Pull
  <2>2. ASSUME Generation PROVE TypeOK' /\ AtModel'
    <3> USE DEF pulls
    <3>1. CASE Generate BY <3>1 DEF Generate
    <3>2. ASSUME NEW m \in Models, LookAt(m) PROVE TypeOK' /\ AtModel'
      BY <3>2 DEF LookAt
    <3>3. CASE RefuseMissing BY <3>3 DEF RefuseMissing
    <3>4. CASE OpenConfig BY <3>4 DEF OpenConfig
    <3>5. CASE WriteConfig BY <3>5 DEF WriteConfig, Config
    <3>6. CASE InterruptGeneration BY <3>6 DEF InterruptGeneration
    <3> QED BY <2>2, <3>1, <3>2, <3>3, <3>4, <3>5, <3>6 DEF Generation
  <2>3. CASE UNCHANGED vars
    BY <2>3 DEF vars, pulls, generation
  <2> QED BY <2>1, <2>2, <2>3 DEF Next
<1> QED BY <1>1, <1>2, PTL DEF Spec

\* The only change of an artifact: it becomes the declared bytes.
LEMMA StepInstalls ==
    ASSUME TypeOK, AtModel, [Next]_vars
    PROVE  \A m \in Models : artifact'[m] # artifact[m] => artifact'[m] = Expected[m]
<1>1. ASSUME NEW r \in Runs, Install(r)
      PROVE  \A m \in Models : artifact'[m] # artifact[m] => artifact'[m] = Expected[m]
  BY <1>1 DEF Install, TypeOK, AtModel
<1>2. (~\E r \in Runs : Install(r)) => UNCHANGED artifact
  BY DEF Next, Pull, Generation, vars, Start, RefuseModel, OpenPresent, AcceptPresent,
     RejectPresent, OpenPart, Download, Discard, Strand, Finish, Interrupt, Generate, LookAt,
     RefuseMissing, OpenConfig, WriteConfig, InterruptGeneration
<1> QED BY <1>1, <1>2

(***************************************************************************)
(* A file of the store only ever becomes the declared bytes.               *)
(***************************************************************************)
THEOREM AtomicInstalls == Spec => InstallsAreAtomic
<1>1. TypeOK /\ AtModel /\ [Next]_vars
        => [\A m \in Models : artifact'[m] # artifact[m] => artifact'[m] = Expected[m]]_artifact
  BY StepInstalls
<1> QED BY <1>1, TypeCorrect, PTL DEF Spec, InstallsAreAtomic

(***************************************************************************)
(* A pull that reports success leaves every model whole.                   *)
(***************************************************************************)
THEOREM PullIsWhole == Spec => []PulledIsWhole
<1>1. Init => PullInv
  BY PullAssumption DEF Init, PullInv, BehindIsWhole, HeldIsThere, Models
<1>2. TypeOK /\ AtModel /\ PullInv /\ [Next]_vars => PullInv'
  <2> SUFFICES ASSUME TypeOK, AtModel, PullInv, [Next]_vars, NEW q \in Runs
               PROVE  /\ \A m \in Models : m < at'[q] => artifact'[m] = Expected[m]
                      /\ pc'[q] = "done" => at'[q] \notin Models
                      /\ pc'[q] = "hashing" /\ held'[q] = Expected[at'[q]]
                             => artifact'[at'[q]] = Expected[at'[q]]
    BY DEF PullInv, BehindIsWhole, HeldIsThere
  <2> USE DEF TypeOK, PullInv, BehindIsWhole, HeldIsThere
  <2>1. \A m \in Models : artifact[m] = Expected[m] => artifact'[m] = Expected[m]
    BY StepInstalls
  <2>2. ASSUME UNCHANGED <<pc[q], at[q], held[q]>>
        PROVE  /\ \A m \in Models : m < at'[q] => artifact'[m] = Expected[m]
               /\ pc'[q] = "done" => at'[q] \notin Models
               /\ pc'[q] = "hashing" /\ held'[q] = Expected[at'[q]]
                      => artifact'[at'[q]] = Expected[at'[q]]
    BY <2>1, <2>2 DEF AtModel
  <2>3. CASE Start(q) BY <2>1, <2>3 DEF Start, Goto
  <2>4. CASE RefuseModel(q) BY <2>1, <2>4 DEF RefuseModel, Goto
  <2>5. CASE OpenPresent(q) BY <2>1, <2>5 DEF OpenPresent, Goto
  <2>6. CASE AcceptPresent(q)
    <3>1. \A m \in Models : m < at[q] + 1 => m < at[q] \/ m = at[q]
      BY DEF Models
    <3> QED BY <2>1, <2>6, <3>1 DEF AcceptPresent, Goto, Advance, AtModel
  <2>7. CASE RejectPresent(q) BY <2>1, <2>7 DEF RejectPresent, Goto
  <2>8. CASE OpenPart(q) BY <2>1, <2>8 DEF OpenPart, Goto
  <2>9. CASE Download(q) BY <2>1, <2>9 DEF Download, Goto
  <2>10. CASE Install(q)
    <3>1. \A m \in Models : m < at[q] + 1 => m < at[q] \/ m = at[q]
      BY DEF Models
    <3>2. artifact'[at[q]] = Expected[at[q]]
      BY <2>10 DEF Install, AtModel
    <3> QED BY <2>1, <2>10, <3>1, <3>2 DEF Install, Goto, Advance, AtModel
  <2>11. CASE Discard(q) BY <2>1, <2>11 DEF Discard, Goto
  <2>12. CASE Finish(q) BY <2>1, <2>12 DEF Finish, Goto
  <2>13. CASE Interrupt(q) \/ Strand(q) BY <2>1, <2>13 DEF Interrupt, Strand, Goto
  <2>14. CASE Pull(q)
    BY <2>14, <2>3, <2>4, <2>5, <2>6, <2>7, <2>8, <2>9, <2>10, <2>11, <2>12, <2>13 DEF Pull
  <2>15. ASSUME NEW r \in Runs, r # q, Pull(r)
         PROVE  UNCHANGED <<pc[q], at[q], held[q]>>
    BY <2>15 DEF Pull, Start, RefuseModel, OpenPresent, AcceptPresent, RejectPresent, OpenPart,
       Download, Install, Discard, Strand, Finish, Interrupt, Goto, Advance
  <2>16. ASSUME Generation \/ UNCHANGED vars PROVE UNCHANGED <<pc, at, held>>
    BY <2>16 DEF Generation, Generate, LookAt, RefuseMissing, OpenConfig, WriteConfig,
       InterruptGeneration, pulls, vars
  <2> QED BY <2>2, <2>14, <2>15, <2>16 DEF Next
<1>3. TypeOK /\ PullInv => PulledIsWhole
  BY PullAssumption DEF TypeOK, PullInv, BehindIsWhole, PulledIsWhole, Models
<1> QED BY <1>1, <1>2, <1>3, TypeCorrect, PTL DEF Spec

(***************************************************************************)
(* A configuration generated with --require-models serves models that are  *)
(* there.                                                                  *)
(***************************************************************************)
THEOREM RequiredAreThere == Spec => []RequiredModelsAreThere
<1>1. Init => GenerationInv
  BY PullAssumption DEF Init, GenerationInv, LookedIsThere, RequiredModelsAreThere
<1>2. TypeOK /\ AtModel /\ GenerationInv /\ [Next]_vars => GenerationInv'
  <2> SUFFICES ASSUME TypeOK, AtModel, GenerationInv, [Next]_vars PROVE GenerationInv'
    OBVIOUS
  <2> USE DEF TypeOK, GenerationInv, LookedIsThere, RequiredModelsAreThere
  <2>1. \A m \in Models : artifact[m] # Absent => artifact'[m] # Absent
    BY StepInstalls, PullAssumption
  <2>2. CASE UNCHANGED generation
    BY <2>1, <2>2 DEF generation
  <2>3. CASE Generate BY <2>1, <2>3 DEF Generate
  <2>4. ASSUME NEW m \in Models, LookAt(m) PROVE GenerationInv'
    BY <2>1, <2>4 DEF LookAt
  <2>5. CASE RefuseMissing BY <2>1, <2>5 DEF RefuseMissing
  <2>6. CASE OpenConfig
    BY <2>1, <2>6, PullAssumption DEF OpenConfig
  <2>7. CASE WriteConfig BY <2>1, <2>7 DEF WriteConfig
  <2>8. CASE InterruptGeneration BY <2>1, <2>8 DEF InterruptGeneration
  <2>9. ASSUME NEW r \in Runs, Pull(r) PROVE UNCHANGED generation
    BY <2>9 DEF Pull, Start, RefuseModel, OpenPresent, AcceptPresent, RejectPresent, OpenPart,
       Download, Install, Discard, Strand, Finish, Interrupt
  <2> QED
    BY <2>2, <2>3, <2>4, <2>5, <2>6, <2>7, <2>8, <2>9 DEF Next, Generation, vars
<1> QED BY <1>1, <1>2, TypeCorrect, PTL DEF Spec, GenerationInv

(***************************************************************************)
(* A temporary file outlives its run only when the run was interrupted or  *)
(* could not remove it.                                                    *)
(***************************************************************************)
THEOREM PartsAreSwept == Spec => []PartsSwept
<1> USE DEF PartsSwept
<1>1. Init => PartsSwept
  BY DEF Init
<1>2. TypeOK /\ PartsSwept /\ [Next]_vars => PartsSwept'
  <2> SUFFICES ASSUME TypeOK, PartsSwept, [Next]_vars PROVE PartsSwept'
    OBVIOUS
  <2>1. ASSUME NEW r \in Runs, Pull(r) PROVE PartsSwept'
    BY <2>1 DEF TypeOK, Pull, Start, RefuseModel, OpenPresent, AcceptPresent, RejectPresent,
       OpenPart, Download, Install, Discard, Strand, Finish, Interrupt, Goto, Advance
  <2>2. CASE Generation
    BY <2>2 DEF Generation, Generate, LookAt, RefuseMissing, OpenConfig, WriteConfig,
       InterruptGeneration, pulls
  <2> QED
    BY <2>1, <2>2 DEF Next, vars, pulls
<1> QED BY <1>1, <1>2, TypeCorrect, PTL DEF Spec

(***************************************************************************)
(* A generation that refuses leaves the configuration as it found it, and  *)
(* one that succeeds leaves none that is truncated.                        *)
(***************************************************************************)
THEOREM RefusalsKeepConfig == Spec => []RefusalKeepsConfig
<1> USE DEF RefusalKeepsConfig
<1>1. Init => RefusalKeepsConfig
  BY PullAssumption DEF Init
<1>2. TypeOK /\ RefusalKeepsConfig /\ [Next]_vars => RefusalKeepsConfig'
  <2> SUFFICES ASSUME TypeOK, RefusalKeepsConfig, [Next]_vars PROVE RefusalKeepsConfig'
    OBVIOUS
  <2>0. CASE WriteConfig
    <3>1. config' \in Config /\ gpc' = "idle"
      BY <2>0 DEF WriteConfig, Config, TypeOK
    <3> QED BY <3>1, PullAssumption
  <2>1. ASSUME NEW r \in Runs, Pull(r) PROVE UNCHANGED generation
    BY <2>1 DEF Pull, Start, RefuseModel, OpenPresent, AcceptPresent, RejectPresent, OpenPart,
       Download, Install, Discard, Strand, Finish, Interrupt
  <2>2. CASE Generation
    BY <2>0, <2>2 DEF Generation, Generate, LookAt, RefuseMissing, OpenConfig,
       InterruptGeneration
  <2> QED
    BY <2>1, <2>2 DEF Next, vars, generation
<1> QED BY <1>1, <1>2, TypeCorrect, PTL DEF Spec

(***************************************************************************)
(* However a pull ends, the store is as its outcome says (lines 182-210).  *)
(***************************************************************************)
THEOREM PullsEndAsSaid == Spec => []PullOutcome
BY PullIsWhole, PartsAreSwept, PTL DEF PullOutcome

(***************************************************************************)
(* However a generation ends, the configuration is as its outcome says     *)
(* (lines 136-167).                                                        *)
(***************************************************************************)
THEOREM GenerationsEndAsSaid == Spec => []GenerationOutcome
BY RequiredAreThere, RefusalsKeepConfig, PTL DEF GenerationOutcome
=============================================================================
