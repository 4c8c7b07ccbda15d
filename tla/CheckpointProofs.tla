-------------------------- MODULE CheckpointProofs --------------------------
(***************************************************************************)
(* Theorems about Checkpoint, for any artifacts and any bounds.  The       *)
(* invariant says that a file nobody touched is still the one its row was  *)
(* registered with, and that rows never refer to unregistered files; so    *)
(* what the latest checkpoint depends on can only be lost to others.       *)
(***************************************************************************)
EXTENDS Checkpoint, TLAPS

(* A file that is not marked as touched is as it was registered. *)
UntouchedIsIntact ==
  /\ \A r \in Revisions : docRows[r] # None /\ r \notin touched =>
       docs[r] = docRows[r]
  /\ \A a \in Artifacts : artRows[a] # None /\ a \notin touched =>
       arts[a] = artRows[a]

(* Only others write what create did not. *)
ForeignIsTouched ==
  \A r \in Revisions : docs[r] = Foreign \/ docRows[r] = Foreign => r \in touched

(* The files that a checkpoint d refers to have rows. *)
RefersToRows(d) ==
  /\ \A q \in d.docRefs : docRows[q] # None
  /\ \A a \in d.artRefs : artRows[a] # None

ReferencesAreRegistered ==
  \A r \in Revisions :
    /\ docs[r] \in Doc => RefersToRows(docs[r])
    /\ docRows[r] \in Doc => RefersToRows(docRows[r])

(* The row of the latest checkpoint is the one the last create made. *)
LatestRowIsNewest ==
  latest # None =>
    /\ docRows[latest] # None
    /\ docRows[latest] \in Doc => docRows[latest].handoff = newest

Inv ==
  /\ TypeOK
  /\ UntouchedIsIntact
  /\ ForeignIsTouched
  /\ ReferencesAreRegistered
  /\ LatestRowIsNewest

(* The number that create gives is one of a checkpoint, and no intact      *)
(* registered checkpoint has it.                                           *)
LEMMA NextRevisionIsFree ==
  ASSUME TypeOK, NEW r \in 0..MaxCreates, IsNextRevision(r)
  PROVE  /\ r \in Revisions
         /\ \A q \in Revisions :
              docRows[q] # None /\ docs[q] \notin {None, Foreign} => q # r
<1>1. PICK read \in Readings :
        /\ \A q \in read : q < r
        /\ r = 1 \/ \E q \in read : q + 1 = r
  BY DEF IsNextRevision
<1>2. read \subseteq Revisions
  BY DEF Readings, AccessibleDocs
<1>3. r \in Revisions
  BY <1>1, <1>2, BoundsArePositive DEF Revisions
<1>4. ASSUME NEW q \in Revisions, docRows[q] # None, docs[q] \notin {None, Foreign}
      PROVE  q # r
  <2>1. q \in AccessibleDocs
    BY <1>4 DEF AccessibleDocs
  <2>2. q \in read
    BY <1>4, <2>1 DEF Readings
  <2> QED BY <1>1, <2>2 DEF Revisions
<1> QED BY <1>3, <1>4

LEMMA InitEstablishesInv == Init => Inv
<1> SUFFICES ASSUME Init PROVE Inv
  OBVIOUS
<1>1. TypeOK
  BY BoundsArePositive DEF Init, TypeOK
<1>2. ForeignIsTouched
  BY ForeignIsNoDoc DEF Init, ForeignIsTouched
<1>3. ReferencesAreRegistered
  BY NoneIsNoValue DEF Init, ReferencesAreRegistered
<1> QED BY <1>1, <1>2, <1>3 DEF Init, Inv, UntouchedIsIntact, LatestRowIsNewest

(* create up to the replacement of the file. *)
LEMMA CreateKeepsInv ==
  ASSUME Inv, NEW r \in 0..MaxCreates, Create(r)
  PROVE  Inv'
<1> DEFINE new == [handoff |-> creates + 1, attempt |-> attempt,
                   docRefs |-> AccessibleDocs, artRefs |-> AccessibleArts]
<1> USE DEF Inv
<1>1. /\ r \in Revisions
      /\ \A q \in Revisions :
           docRows[q] # None /\ docs[q] \notin {None, Foreign} => q # r
  BY NextRevisionIsFree DEF Create
<1>2. new \in Doc
  BY BoundsArePositive DEF TypeOK, Create, Doc, AccessibleDocs, AccessibleArts, Revisions
<1>3. /\ docs' = [docs EXCEPT ![r] = new]
      /\ UNCHANGED <<docRows, arts, artRows, latest, attempt, newest, touched>>
      /\ writing' = r
      /\ creates' = creates + 1 /\ creates < MaxCreates
  BY DEF Create, rows
<1> HIDE DEF new
<1>4. TypeOK'
  BY <1>1, <1>2, <1>3, BoundsArePositive DEF TypeOK
<1>5. UntouchedIsIntact'
  <2>1. ASSUME docRows[r] # None PROVE r \in touched
    <3>1. docs[r] \in {None, Foreign}
      BY <1>1, <2>1
    <3>2. docRows[r] \in Doc \cup {Foreign}
      BY <1>1, <2>1 DEF TypeOK
    <3> QED BY <1>1, <2>1, <3>1, <3>2, ForeignIsNoDoc, NoneIsNoValue
            DEF UntouchedIsIntact, ForeignIsTouched
  <2> QED BY <1>3, <2>1 DEF UntouchedIsIntact, TypeOK
<1>6. ForeignIsTouched'
  BY <1>2, <1>3, ForeignIsNoDoc DEF ForeignIsTouched, TypeOK
<1>7. ReferencesAreRegistered'
  <2>1. RefersToRows(new)
    BY DEF RefersToRows, new, AccessibleDocs, AccessibleArts
  <2> QED BY <1>3, <2>1 DEF ReferencesAreRegistered, RefersToRows, TypeOK
<1>8. LatestRowIsNewest'
  BY <1>3 DEF LatestRowIsNewest
<1> QED BY <1>4, <1>5, <1>6, <1>7, <1>8

LEMMA RegisterKeepsInv ==
  ASSUME Inv, Register
  PROVE  Inv'
<1> USE DEF Inv
<1>1. writing \in Revisions /\ docs[writing] \in Doc \cup {Foreign}
  BY DEF Register, TypeOK
<1>2. /\ docRows' = [docRows EXCEPT ![writing] = docs[writing]]
      /\ latest' = writing
      /\ UNCHANGED <<docs, arts, artRows, attempt, creates>>
      /\ writing' = None
  BY DEF Register, files
<1>3. TypeOK'
  BY <1>1, <1>2 DEF TypeOK, Register, Doc
<1>4. UntouchedIsIntact'
  BY <1>1, <1>2, ArtifactsAreNoRevisions
  DEF UntouchedIsIntact, TypeOK, Register, Revisions
<1>5. ForeignIsTouched'
  BY <1>1, <1>2 DEF ForeignIsTouched, TypeOK, Register
<1>6. ReferencesAreRegistered'
  <2>1. \A q \in Revisions : docRows[q] # None => docRows'[q] # None
    BY <1>1, <1>2, NoneIsNoValue, ForeignIsNoDoc DEF TypeOK
  <2>2. \A d \in Doc : RefersToRows(d) => RefersToRows(d)'
    BY <1>2, <2>1 DEF RefersToRows, Doc
  <2> QED BY <1>1, <1>2, <2>2 DEF ReferencesAreRegistered, TypeOK
<1>7. LatestRowIsNewest'
  BY <1>1, <1>2, NoneIsNoValue, ForeignIsNoDoc
  DEF LatestRowIsNewest, TypeOK, Register
<1> QED BY <1>3, <1>4, <1>5, <1>6, <1>7

(* Everything else leaves the rows of checkpoints alone. *)
LEMMA OtherStepsKeepInv ==
  ASSUME Inv,
         \/ NotRegistered \/ Supersede
         \/ \E a \in Artifacts :
              WriteArtifact(a) \/ RegisterArtifact(a) \/ DeleteArtifact(a)
         \/ \E r \in Revisions : SpoilCheckpoint(r)
  PROVE  Inv'
<1> USE DEF Inv
<1>1. CASE NotRegistered
  BY <1>1 DEF NotRegistered, files, rows, TypeOK, UntouchedIsIntact,
     ForeignIsTouched, ReferencesAreRegistered, RefersToRows, LatestRowIsNewest
<1>2. CASE Supersede
  <2>1. TypeOK'
    BY <1>2, BoundsArePositive DEF Supersede, files, TypeOK
  <2> QED BY <1>2, <2>1 DEF Supersede, files, UntouchedIsIntact,
     ForeignIsTouched, ReferencesAreRegistered, RefersToRows, LatestRowIsNewest
<1>3. ASSUME NEW a \in Artifacts, WriteArtifact(a) \/ DeleteArtifact(a)
      PROVE  Inv'
  <2>1. arts'[a] \in 1..MaxVersion \cup {None} /\ arts' = [arts EXCEPT ![a] = arts'[a]]
    BY <1>3, BoundsArePositive DEF WriteArtifact, DeleteArtifact, TypeOK
  <2>2. /\ touched' = touched \cup {a}
        /\ UNCHANGED <<docs, docRows, artRows, latest, attempt, writing, creates, newest>>
    BY <1>3 DEF WriteArtifact, DeleteArtifact, rows
  <2>3. TypeOK'
    BY <2>1, <2>2 DEF TypeOK
  <2>4. UntouchedIsIntact'
    BY <2>1, <2>2 DEF UntouchedIsIntact, TypeOK
  <2> QED BY <2>2, <2>3, <2>4
          DEF ForeignIsTouched, ReferencesAreRegistered, RefersToRows, LatestRowIsNewest
<1>4. ASSUME NEW a \in Artifacts, RegisterArtifact(a)
      PROVE  Inv'
  <2>1. /\ artRows' = [artRows EXCEPT ![a] = arts[a]]
        /\ touched' = touched \ {a}
        /\ arts[a] # None
        /\ UNCHANGED <<docs, arts, docRows, latest, attempt, writing, creates, newest>>
    BY <1>4 DEF RegisterArtifact, files
  <2>2. TypeOK'
    BY <2>1 DEF TypeOK
  <2>3. UntouchedIsIntact' /\ ForeignIsTouched'
    BY <2>1, ArtifactsAreNoRevisions
    DEF UntouchedIsIntact, ForeignIsTouched, TypeOK, Revisions
  <2>4. \A d \in Doc : RefersToRows(d) => RefersToRows(d)'
    BY <2>1 DEF RefersToRows, Doc, TypeOK
  <2>5. ReferencesAreRegistered'
    BY <2>1, <2>4 DEF ReferencesAreRegistered
  <2> QED BY <2>1, <2>2, <2>3, <2>5 DEF LatestRowIsNewest
<1>5. ASSUME NEW r \in Revisions, SpoilCheckpoint(r)
      PROVE  Inv'
  <2>1. PICK content \in {None, Foreign} : docs' = [docs EXCEPT ![r] = content]
    BY <1>5 DEF SpoilCheckpoint
  <2>2. /\ touched' = touched \cup {r}
        /\ UNCHANGED <<arts, docRows, artRows, latest, attempt, writing, creates, newest>>
    BY <1>5 DEF SpoilCheckpoint, rows
  <2>3. TypeOK'
    BY <2>1, <2>2 DEF TypeOK
  <2>4. UntouchedIsIntact' /\ ForeignIsTouched'
    BY <2>1, <2>2 DEF UntouchedIsIntact, ForeignIsTouched, TypeOK
  <2>5. ReferencesAreRegistered'
    <3>1. content \notin Doc
      BY <2>1, NoneIsNoValue, ForeignIsNoDoc
    <3> QED BY <2>1, <2>2, <3>1 DEF ReferencesAreRegistered, RefersToRows, TypeOK
  <2> QED BY <2>2, <2>3, <2>4, <2>5 DEF LatestRowIsNewest
<1> QED BY <1>1, <1>2, <1>3, <1>4, <1>5

LEMMA StepKeepsInv == Inv /\ [Next]_vars => Inv'
<1> SUFFICES ASSUME Inv, [Next]_vars PROVE Inv'
  OBVIOUS
<1>1. CASE Next
  BY <1>1, CreateKeepsInv, RegisterKeepsInv, OtherStepsKeepInv DEF Next
<1>2. CASE UNCHANGED vars
  BY <1>2 DEF vars, files, rows, Inv, TypeOK, UntouchedIsIntact, ForeignIsTouched,
     ReferencesAreRegistered, RefersToRows, LatestRowIsNewest
<1> QED BY <1>1, <1>2

LEMMA InvHolds == Spec => []Inv
BY InitEstablishesInv, StepKeepsInv, PTL DEF Spec

(* Every file and row keeps its shape, for any artifacts and bounds. *)
THEOREM CheckpointTypeCorrect == Spec => []TypeOK
<1>1. Inv => TypeOK
  BY DEF Inv
<1> QED BY <1>1, InvHolds, PTL

(* The service never makes the latest checkpoint unloadable, however many  *)
(* creations fail or crash between the file and its row.                   *)
THEOREM LatestLoads == Spec => []LatestLoadsUnlessTouched
<1>1. ASSUME Inv PROVE LatestLoadsUnlessTouched
  <2> SUFFICES ASSUME latest # None, docRows[latest] # Foreign,
                      docRows[latest].attempt = attempt,
                      touched \cap DependsOn(latest) = {}
               PROVE  Loadable(latest)
    BY DEF LatestLoadsUnlessTouched
  <2>1. latest \in Revisions /\ docRows[latest] \in Doc
    BY <1>1 DEF Inv, TypeOK, LatestRowIsNewest
  <2>2. docs[latest] = docRows[latest]
    BY <1>1, <2>1, NoneIsNoValue DEF Inv, UntouchedIsIntact, DependsOn
  <2>3. \A q \in docs[latest].docRefs : docRows[q] # None /\ docs[q] = docRows[q]
    BY <1>1, <2>1, <2>2
    DEF Inv, UntouchedIsIntact, ReferencesAreRegistered, RefersToRows, DependsOn, Doc
  <2>4. \A a \in docs[latest].artRefs : artRows[a] # None /\ arts[a] = artRows[a]
    BY <1>1, <2>1, <2>2
    DEF Inv, UntouchedIsIntact, ReferencesAreRegistered, RefersToRows, DependsOn, Doc
  <2> QED BY <2>1, <2>2, <2>3, <2>4, NoneIsNoValue, ForeignIsNoDoc DEF Loadable
<1> QED BY <1>1, InvHolds, PTL

(* What loads is what the last successful create returned. *)
THEOREM LoadedStaysNewest == Spec => []LoadedIsTheNewest
<1>1. ASSUME Inv PROVE LoadedIsTheNewest
  <2> SUFFICES ASSUME latest # None, Loadable(latest)
               PROVE  docs[latest].handoff = newest
    BY DEF LoadedIsTheNewest
  <2>1. latest \in Revisions /\ docs[latest] \in Doc
    BY <1>1 DEF Inv, TypeOK, Loadable
  <2> QED BY <1>1, <2>1 DEF Inv, LatestRowIsNewest, Loadable
<1> QED BY <1>1, InvHolds, PTL

=============================================================================
