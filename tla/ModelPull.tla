----------------------------- MODULE ModelPull ------------------------------
(***************************************************************************)
(* The model tool (tools/grnd0_models.py): runs of "models pull" and of    *)
(* "models generate" over one model store.                                 *)
(*                                                                         *)
(* A pull takes the pack's models in order: an artifact that is there is   *)
(* read and hashed, one that is not is downloaded to a temporary file      *)
(* beside it, hashed, and renamed into place. Pulls may overlap, a         *)
(* download may bring any bytes or fail, and a run may be interrupted at   *)
(* any point: the clean-up is "except Exception", which an interrupt is    *)
(* not. Generations of the serving configuration follow one another and    *)
(* interleave with the pulls; the configuration is written in place. Equal *)
(* digests stand for equal bytes. Only the tool touches the store.         *)
(***************************************************************************)
EXTENDS Naturals

CONSTANTS
    N,          \* the pack declares models 1..N, in this order
    Runs,       \* the pull commands
    Contents,   \* what an artifact file may contain
    Expected,   \* [1..N -> Contents]: the bytes with the declared digest
    Pullable,   \* the models that declare an HTTPS URL and a SHA-256 digest
    Absent,     \* no file
    Partial,    \* a temporary file whose download has not ended
    Torn        \* a configuration truncated and not yet written

Models == 1 .. N

Config == [missing : SUBSET Models, required : BOOLEAN]

ASSUME PullAssumption ==
    /\ N \in Nat \ {0}
    /\ Expected \in [Models -> Contents]
    /\ Pullable \subseteq Models
    /\ Absent \notin Contents
    /\ Partial \notin Contents
    /\ Absent # Partial /\ Absent # Torn
    /\ {Absent, Torn} \cap Config = {}

VARIABLES
    artifact,   \* [Models -> Contents \cup {Absent}]: the installed files
    part,       \* [Runs -> the temporary file of the run, or Absent]
    pc,         \* [Runs -> where the run is]
    at,         \* [Runs -> the model it is at; N + 1 after the last]
    forced,     \* [Runs -> BOOLEAN]: --force
    held,       \* [Runs -> the bytes of the file it has opened for hashing]
    config,     \* the generated configuration file
    gpc,        \* where the generation is
    looked,     \* the models it has looked at
    missing,    \* those whose artifact was not there
    require,    \* --require-models
    found       \* history: the configuration when the generation started

pulls == <<part, pc, at, forced, held>>
generation == <<config, gpc, looked, missing, require, found>>
vars == <<artifact, pulls, generation>>

RunPC == {"idle", "looking", "hashing", "downloading", "verifying",
          "done", "failed", "stranded", "interrupted"}
GenPC == {"idle", "looking", "writing", "refused", "interrupted"}

Init ==
    /\ artifact \in [Models -> Contents \cup {Absent}]
    /\ part = [r \in Runs |-> Absent]
    /\ pc = [r \in Runs |-> "idle"]
    /\ at = [r \in Runs |-> 1]
    /\ forced \in [Runs -> BOOLEAN]
    /\ held = [r \in Runs |-> Absent]
    /\ config = Absent
    /\ gpc = "idle"
    /\ looked = {}
    /\ missing = {}
    /\ require = FALSE
    /\ found = Absent

Goto(r, label) == pc' = [pc EXCEPT ![r] = label]

\* The run's model is settled: it goes on with the next one.
Advance(r) ==
    /\ at' = [at EXCEPT ![r] = @ + 1]
    /\ Goto(r, "looking")

Start(r) ==
    /\ pc[r] = "idle"
    /\ Goto(r, "looking")
    /\ UNCHANGED <<artifact, part, at, forced, held, generation>>

-----------------------------------------------------------------------------
(* The pull.                                                               *)

\* The model declares no HTTPS URL or no digest, or nothing can be opened for it.
RefuseModel(r) ==
    /\ pc[r] = "looking" /\ at[r] \in Models
    /\ Goto(r, "failed")
    /\ UNCHANGED <<artifact, part, at, forced, held, generation>>

\* The artifact is there and its replacement is not forced: it is opened.
OpenPresent(r) ==
    /\ pc[r] = "looking" /\ at[r] \in Pullable
    /\ artifact[at[r]] # Absent /\ ~forced[r]
    /\ held' = [held EXCEPT ![r] = artifact[at[r]]]
    /\ Goto(r, "hashing")
    /\ UNCHANGED <<artifact, part, at, forced, generation>>

\* Mutant of AcceptPresent: an artifact that is there is taken for the one declared.
AcceptAnyPresent(r) ==
    /\ pc[r] = "hashing"
    /\ Advance(r)
    /\ UNCHANGED <<artifact, part, forced, held, generation>>

AcceptPresent(r) ==
    /\ pc[r] = "hashing" /\ held[r] = Expected[at[r]]
    /\ Advance(r)
    /\ UNCHANGED <<artifact, part, forced, held, generation>>

RejectPresent(r) ==
    /\ pc[r] = "hashing" /\ held[r] # Expected[at[r]]
    /\ Goto(r, "failed")
    /\ UNCHANGED <<artifact, part, at, forced, held, generation>>

\* mkstemp, and the request for the file.
OpenPart(r) ==
    /\ pc[r] = "looking" /\ at[r] \in Pullable
    /\ artifact[at[r]] = Absent \/ forced[r]
    /\ part' = [part EXCEPT ![r] = Partial]
    /\ Goto(r, "downloading")
    /\ UNCHANGED <<artifact, at, forced, held, generation>>

Download(r) ==
    /\ pc[r] = "downloading"
    /\ \E c \in Contents : part' = [part EXCEPT ![r] = c]
    /\ Goto(r, "verifying")
    /\ UNCHANGED <<artifact, at, forced, held, generation>>

\* Mutant of Install: the file is moved into place before its digest is compared.
InstallUnverified(r) ==
    /\ pc[r] = "verifying"
    /\ artifact' = [artifact EXCEPT ![at[r]] = part[r]]
    /\ part' = [part EXCEPT ![r] = Absent]
    /\ Advance(r)
    /\ UNCHANGED <<forced, held, generation>>

\* The digest is the declared one: os.replace.
Install(r) ==
    /\ pc[r] = "verifying" /\ part[r] = Expected[at[r]]
    /\ artifact' = [artifact EXCEPT ![at[r]] = part[r]]
    /\ part' = [part EXCEPT ![r] = Absent]
    /\ Advance(r)
    /\ UNCHANGED <<forced, held, generation>>

\* The download fails, it brings other bytes, or the file cannot be moved into place:
\* the temporary file is removed.
Discard(r) ==
    /\ pc[r] \in {"downloading", "verifying"}
    /\ part' = [part EXCEPT ![r] = Absent]
    /\ Goto(r, "failed")
    /\ UNCHANGED <<artifact, at, forced, held, generation>>

\* The same, and the temporary file cannot be removed either.
Strand(r) ==
    /\ pc[r] \in {"downloading", "verifying"}
    /\ Goto(r, "stranded")
    /\ UNCHANGED <<artifact, part, at, forced, held, generation>>

Finish(r) ==
    /\ pc[r] = "looking" /\ at[r] \notin Models
    /\ Goto(r, "done")
    /\ UNCHANGED <<artifact, part, at, forced, held, generation>>

\* An interrupt is no Exception: whatever the run has on disk stays there.
Interrupt(r) ==
    /\ pc[r] \in {"looking", "hashing", "downloading", "verifying"}
    /\ Goto(r, "interrupted")
    /\ UNCHANGED <<artifact, part, at, forced, held, generation>>

-----------------------------------------------------------------------------
(* The generation of the serving configuration.                            *)

Generate ==
    /\ gpc \in {"idle", "refused", "interrupted"}
    /\ require' \in BOOLEAN
    /\ looked' = {}
    /\ missing' = {}
    /\ found' = config
    /\ gpc' = "looking"
    /\ UNCHANGED <<artifact, pulls, config>>

\* Mutant of LookAt: a file is looked for where a pull puts its temporary file too.
LookAtAnything(m) ==
    /\ gpc = "looking" /\ m \notin looked
    /\ \A k \in Models : k < m => k \in looked
    /\ looked' = looked \cup {m}
    /\ missing' = IF artifact[m] = Absent /\ (\A r \in Runs : part[r] = Absent)
                  THEN missing \cup {m} ELSE missing
    /\ UNCHANGED <<artifact, pulls, config, gpc, require, found>>

\* host_path.is_file(), one model after the other.
LookAt(m) ==
    /\ gpc = "looking" /\ m \notin looked
    /\ \A k \in Models : k < m => k \in looked
    /\ looked' = looked \cup {m}
    /\ missing' = IF artifact[m] = Absent THEN missing \cup {m} ELSE missing
    /\ UNCHANGED <<artifact, pulls, config, gpc, require, found>>

RefuseMissing ==
    /\ gpc = "looking" /\ looked = Models
    /\ require /\ missing # {}
    /\ gpc' = "refused"
    /\ UNCHANGED <<artifact, pulls, config, looked, missing, require, found>>

\* write_text opens the output, which empties it.
OpenConfig ==
    /\ gpc = "looking" /\ looked = Models
    /\ ~require \/ missing = {}
    /\ config' = Torn
    /\ gpc' = "writing"
    /\ UNCHANGED <<artifact, pulls, looked, missing, require, found>>

WriteConfig ==
    /\ gpc = "writing"
    /\ config' = [missing |-> missing, required |-> require]
    /\ gpc' = "idle"
    /\ UNCHANGED <<artifact, pulls, looked, missing, require, found>>

\* Killed, or the disk is full.
InterruptGeneration ==
    /\ gpc \in {"looking", "writing"}
    /\ gpc' = "interrupted"
    /\ UNCHANGED <<artifact, pulls, config, looked, missing, require, found>>

-----------------------------------------------------------------------------

Pull(r) ==
    \/ Start(r) \/ RefuseModel(r) \/ OpenPresent(r) \/ AcceptPresent(r) \/ RejectPresent(r)
    \/ OpenPart(r) \/ Download(r) \/ Install(r) \/ Discard(r) \/ Strand(r)
    \/ Finish(r) \/ Interrupt(r)

Generation ==
    \/ Generate \/ (\E m \in Models : LookAt(m)) \/ RefuseMissing
    \/ OpenConfig \/ WriteConfig \/ InterruptGeneration

Next == (\E r \in Runs : Pull(r)) \/ Generation

Spec == Init /\ [][Next]_vars

-----------------------------------------------------------------------------
(* Properties.                                                             *)

TypeOK ==
    /\ artifact \in [Models -> Contents \cup {Absent}]
    /\ part \in [Runs -> Contents \cup {Absent, Partial}]
    /\ pc \in [Runs -> RunPC]
    /\ at \in [Runs -> 1 .. N + 1]
    /\ forced \in [Runs -> BOOLEAN]
    /\ held \in [Runs -> Contents \cup {Absent}]
    /\ config \in Config \cup {Absent, Torn}
    /\ gpc \in GenPC
    /\ looked \subseteq Models
    /\ missing \subseteq looked
    /\ require \in BOOLEAN
    /\ found \in Config \cup {Absent, Torn}

(***************************************************************************)
(* A file of the store changes in one way only: from one step to the next  *)
(* it becomes the declared bytes. Nobody ever sees a download in progress, *)
(* bytes that failed their digest, or an artifact taken away: the promise  *)
(* of docs/INFERENCE.md:19-20 (lines 182-208).                             *)
(***************************************************************************)
InstallsAreAtomic ==
    [][\A m \in Models : artifact'[m] # artifact[m] => artifact'[m] = Expected[m]]_artifact

(***************************************************************************)
(* A pull that reports success leaves every model of the pack with its     *)
(* declared bytes, whatever other pulls, forced ones included, did to the  *)
(* files it had already passed, or while it hashed them.                   *)
(***************************************************************************)
PulledIsWhole ==
    \A r \in Runs : pc[r] = "done" => \A m \in Models : artifact[m] = Expected[m]

(***************************************************************************)
(* A temporary file outlives its run only when the run was interrupted or  *)
(* could not remove it: every failure, that of the digest and that of the  *)
(* rename included, sweeps it (lines 195-208).                             *)
(***************************************************************************)
PartsSwept ==
    \A r \in Runs : part[r] # Absent => pc[r] \in {"downloading", "verifying", "stranded", "interrupted"}

(***************************************************************************)
(* A configuration generated with --require-models serves models that are  *)
(* there, although the models are looked at one by one while pulls install *)
(* and fail (lines 136-166).                                               *)
(***************************************************************************)
RequiredModelsAreThere ==
    (config \in Config /\ config.required) => \A m \in Models : artifact[m] # Absent

(***************************************************************************)
(* A generation that refuses leaves the configuration as it found it, and  *)
(* one that succeeds leaves none that is truncated (lines 155-166).        *)
(***************************************************************************)
RefusalKeepsConfig ==
    /\ gpc \in {"looking", "refused"} => config = found
    /\ gpc = "writing" => config = Torn
    /\ gpc = "idle" => config # Torn

(***************************************************************************)
(* However a pull ends, the store is as its outcome says: whole after a    *)
(* success, and without a temporary file unless it was interrupted or the  *)
(* file could not be removed (lines 182-210).                              *)
(***************************************************************************)
PullOutcome == PulledIsWhole /\ PartsSwept

(***************************************************************************)
(* However a generation ends, the configuration is as its outcome says:    *)
(* with every required model there, or as it was before a refusal          *)
(* (lines 136-167).                                                        *)
(***************************************************************************)
GenerationOutcome == RequiredModelsAreThere /\ RefusalKeepsConfig
=============================================================================
