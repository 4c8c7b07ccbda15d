----------------------------- MODULE Checkpoint -----------------------------
(***************************************************************************)
(* CheckpointService (core/checkpoint_service.py) for one task: numbered   *)
(* checkpoint files in the workspace, their rows in the artifacts table,   *)
(* and tasks.latest_checkpoint_uri.                                        *)
(*                                                                         *)
(* create replaces the file and then registers it in a transaction; the    *)
(* service may crash or the registration fail in between.  The workspace   *)
(* belongs to the plugin and its user (it may be a synchronised folder),   *)
(* so files can be changed or deleted at any time.  A hash stands for the  *)
(* content it was taken of; of the rows about one file only the last one   *)
(* counts.  Temporary files and directories are left out.                  *)
(***************************************************************************)
EXTENDS Naturals, FiniteSets

CONSTANTS
  Artifacts,     \* the other files that are registered for the task
  None, Foreign, \* no file or row; a content that create did not write
  MaxVersion,    \* bound: changes of an artifact by its producer
  MaxAttempt,    \* bound: attempts of the task
  MaxCreates     \* bound: calls of create

ASSUME BoundsArePositive == {MaxVersion, MaxAttempt, MaxCreates} \subseteq Nat \ {0}
ASSUME ArtifactsAreNoRevisions == Artifacts \cap Nat = {}

(* Checkpoint r is the file CP-r; there is at most one for each create.    *)
Revisions == 1..MaxCreates

(* What create writes; the handoff is numbered by the calls of create.     *)
Doc == [handoff : 1..MaxCreates, attempt : 1..MaxAttempt,
        docRefs : SUBSET Revisions, artRefs : SUBSET Artifacts]

ASSUME NoneIsNoValue == None \notin Doc \cup Nat
ASSUME ForeignIsNoDoc == Foreign \notin Doc \cup {None}

VARIABLES
  docs,      \* the checkpoint files
  docRows,   \* the content each was last registered with
  arts,      \* the artifact files: their version, or None
  artRows,   \* the version each was last registered with
  latest,    \* tasks.latest_checkpoint_uri, a revision or None
  attempt,   \* tasks.current_attempt_id
  writing,   \* the revision create has replaced and not yet registered
  creates,   \* the number of calls of create
  newest,    \* history: the handoff of the last create that returned
  touched    \* history: files changed by others since they were registered

files == <<docs, arts>>
rows == <<docRows, artRows, latest, attempt>>
vars == <<files, rows, writing, creates, newest, touched>>

Init ==
  /\ docs = [r \in Revisions |-> None]
  /\ docRows = [r \in Revisions |-> None]
  /\ arts = [a \in Artifacts |-> None]
  /\ artRows = [a \in Artifacts |-> None]
  /\ latest = None
  /\ attempt = 1
  /\ writing = None
  /\ creates = 0
  /\ newest = None
  /\ touched = {}

-----------------------------------------------------------------------------
(* The registered files that exist (accessible_artifact_refs). *)
AccessibleDocs == {r \in Revisions : docRows[r] # None /\ docs[r] # None}
AccessibleArts == {a \in Artifacts : artRows[a] # None /\ arts[a] # None}

(* What _next_revision may read: every file that create wrote, and perhaps *)
(* a spoiled one that still parses, with its own number.                   *)
Readings == {read \in SUBSET AccessibleDocs :
               \A r \in AccessibleDocs \ read : docs[r] = Foreign}

(* Mutant: the new checkpoint takes the number of the last one. *)
IsSameRevision(r) ==
  \E read \in Readings :
    /\ \A q \in read : q <= r
    /\ r = 1 \/ r \in read

(* r is max(revisions, default=0) + 1. *)
IsNextRevision(r) ==
  \E read \in Readings :
    /\ \A q \in read : q < r
    /\ r = 1 \/ \E q \in read : q + 1 = r

(* create up to the replacement of the file. *)
Create(r) ==
  /\ writing = None
  /\ creates < MaxCreates
  /\ IsNextRevision(r)
  /\ creates' = creates + 1
  /\ docs' = [docs EXCEPT ![r] =
       [handoff |-> creates + 1, attempt |-> attempt,
        docRefs |-> AccessibleDocs, artRefs |-> AccessibleArts]]
  /\ writing' = r
  /\ UNCHANGED <<arts, rows, newest, touched>>

(* The rest of create: the file is hashed and registered as the latest. *)
Register ==
  /\ writing # None
  /\ docs[writing] # None
  /\ docRows' = [docRows EXCEPT ![writing] = docs[writing]]
  /\ latest' = writing
  /\ newest' = IF docs[writing] = Foreign THEN newest ELSE docs[writing].handoff
  /\ touched' = IF docs[writing] = Foreign THEN touched
                ELSE touched \ {writing}
  /\ writing' = None
  /\ UNCHANGED <<files, artRows, attempt, creates>>

(* The registration fails, or the service crashes before it: the file      *)
(* stays.                                                                  *)
NotRegistered ==
  /\ writing # None
  /\ writing' = None
  /\ UNCHANGED <<files, rows, creates, newest, touched>>

(* Mutant: load trusts a document with a good hash of its own. *)
LoadableUnregistered(r) ==
  /\ docs[r] \notin {None, Foreign}
  /\ docs[r].attempt = attempt
  /\ docRows[r] # None
  /\ \A q \in docs[r].docRefs : docRows[q] # None /\ docs[q] = docRows[q]
  /\ \A a \in docs[r].artRefs : artRows[a] # None /\ arts[a] = artRows[a]

(* load accepts checkpoint r. *)
Loadable(r) ==
  /\ docs[r] \notin {None, Foreign}
  /\ docs[r].attempt = attempt
  /\ docs[r] = docRows[r]
  /\ \A q \in docs[r].docRefs : docRows[q] # None /\ docs[q] = docRows[q]
  /\ \A a \in docs[r].artRefs : artRows[a] # None /\ arts[a] = artRows[a]

-----------------------------------------------------------------------------
(* The producer of an artifact, a channel or the plugin, writes its file.  *)
(* A registered artifact that is written again no longer has its hash.     *)
WriteArtifact(a) ==
  /\ arts[a] # MaxVersion
  /\ arts' = [arts EXCEPT ![a] = IF @ = None THEN 1 ELSE @ + 1]
  /\ touched' = touched \cup {a}
  /\ UNCHANGED <<docs, rows, writing, creates, newest>>

(* ArtifactService.register, with the hash of the file as it is. *)
RegisterArtifact(a) ==
  /\ writing = None
  /\ arts[a] # None
  /\ artRows' = [artRows EXCEPT ![a] = arts[a]]
  /\ touched' = touched \ {a}
  /\ UNCHANGED <<files, docRows, latest, attempt, writing, creates, newest>>

DeleteArtifact(a) ==
  /\ arts[a] # None
  /\ arts' = [arts EXCEPT ![a] = None]
  /\ touched' = touched \cup {a}
  /\ UNCHANGED <<docs, rows, writing, creates, newest>>

(* Others change or delete a checkpoint file. *)
SpoilCheckpoint(r) ==
  /\ docs[r] # None
  /\ \E content \in {None, Foreign} \ {docs[r]} :
       docs' = [docs EXCEPT ![r] = content]
  /\ touched' = touched \cup {r}
  /\ UNCHANGED <<arts, rows, writing, creates, newest>>

(* TaskService.create_attempt. *)
Supersede ==
  /\ writing = None
  /\ attempt < MaxAttempt
  /\ attempt' = attempt + 1
  /\ UNCHANGED <<files, docRows, artRows, latest, writing, creates, newest, touched>>

Next ==
  \/ \E r \in 0..MaxCreates : Create(r)
  \/ Register \/ NotRegistered \/ Supersede
  \/ \E a \in Artifacts :
       WriteArtifact(a) \/ RegisterArtifact(a) \/ DeleteArtifact(a)
  \/ \E r \in Revisions : SpoilCheckpoint(r)

Spec == Init /\ [][Next]_vars

-----------------------------------------------------------------------------
(* Every file and row has a content that create or its producer gives it.  *)
TypeOK ==
  /\ docs \in [Revisions -> Doc \cup {None, Foreign}]
  /\ docRows \in [Revisions -> Doc \cup {None, Foreign}]
  /\ arts \in [Artifacts -> 1..MaxVersion \cup {None}]
  /\ artRows \in [Artifacts -> 1..MaxVersion \cup {None}]
  /\ latest \in Revisions \cup {None}
  /\ attempt \in 1..MaxAttempt
  /\ writing \in Revisions \cup {None}
  /\ creates \in 0..MaxCreates
  /\ newest \in 1..MaxCreates \cup {None}
  /\ touched \subseteq Revisions \cup Artifacts

(* The files that load reads for checkpoint r. *)
DependsOn(r) == {r} \cup docRows[r].docRefs \cup docRows[r].artRefs

(* The service itself never makes the latest checkpoint unloadable: unless *)
(* others have touched a file it depends on, or its attempt has been       *)
(* superseded, it loads, whatever creations failed or crashed half-way     *)
(* since (create in core/checkpoint_service.py).                           *)
LatestLoadsUnlessTouched ==
  /\ latest # None
  /\ docRows[latest] # Foreign
  /\ docRows[latest].attempt = attempt
  /\ touched \cap DependsOn(latest) = {}
  => Loadable(latest)

(* A checkpoint that loads is the one the last successful create returned: *)
(* a resumed plugin is never given an older handoff, nor one whose         *)
(* creation failed, even when its file took over the name of a deleted     *)
(* one.                                                                    *)
LoadedIsTheNewest ==
  latest # None /\ Loadable(latest) => docs[latest].handoff = newest

=============================================================================
