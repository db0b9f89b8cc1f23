------------------------------- MODULE Draft -------------------------------
(***************************************************************************)
(* Collaborative drafts: AutomergeDraft and the commands that keep one in  *)
(* a file.  Two hosts each have a draft file: copies of one draft, until a *)
(* command puts another document in the place of one of them.              *)
(*                                                                         *)
(* A document is the set of its changes, the first being the one that      *)
(* created it.  A change holds the document it was made on (past), as its  *)
(* hash covers its dependencies, and the names of the changes its editor   *)
(* had read (read).  Heads determine a document, so a document stands for  *)
(* its own heads.                                                          *)
(***************************************************************************)
EXTENDS Naturals, FiniteSets

CONSTANTS
  Base,         \* the draft as created: from paths to values, "none" at a
                \* field that is not there and may be added
  ParentOf,     \* the object a path lies in, {} for the root
  Patch,        \* the patches editors try: [path, value]
  Meaningful,   \* the materialized drafts that deserialize and validate
  MaxEdits      \* bound on the changes made, the first creation included

Path == DOMAIN Base
\* The empty pointer, which is no place to patch: what a creation writes.
Whole == ""
Host == {"client", "server"}
OtherHost(h) == CHOOSE g \in Host : g # h

ASSUME WholeAssumption == Whole \notin Path
ASSUME ParentAssumption ==
  /\ ParentOf \in [Path -> SUBSET Path]
  /\ \A p \in Path : \A q \in ParentOf[p] : Base[q] = "object" /\ ParentOf[q] = {}
ASSUME PatchAssumption == \A patch \in Patch : patch.value # "none"
ASSUME EditsAssumption == MaxEdits \in Nat \ {0}

VARIABLES
  file,     \* the draft file of each host
  editor,   \* the document an editor on a host works on, if there is one
  edits     \* how many changes have been made

draftVars == <<file, editor, edits>>

(***************************************************************************)
(* Reading a document (external: get_all and get of Automerge).            *)
(***************************************************************************)
\* from_conversation: every creation has an actor of its own, so two of them are
\* two histories, even of one conversation.
Creation(n) == [id |-> n, path |-> Whole, value |-> "created", past |-> {}, read |-> {}]

IsCreation(c) == c.path = Whole

\* A creation writes whatever the draft starts with.
Writes(d, p) == {c \in d : c.path = p \/ (IsCreation(c) /\ Base[p] # "none")}

ValueOf(c, p) == IF IsCreation(c) THEN Base[p] ELSE c.value

\* get_all: the writes at path p that no later write has seen.
Competing(d, p) ==
  {c \in Writes(d, p) : ~\E e \in d : e.path = p /\ c \in e.past}

\* The path has an object to lie in: the one it was created in (there always is one,
\* with the draft), which no other creation's is in conflict with and no patch has
\* written over: patches write scalars.
Reachable(d, p) ==
  \A q \in ParentOf[p] :
    LET there == Competing(d, q) IN Cardinality(there) <= 1 /\ \A c \in there : IsCreation(c)

ValueAt(d, p) ==
  LET there == Competing(d, p) IN
  IF there = {} THEN "none" ELSE ValueOf(CHOOSE c \in there : TRUE, p)

Conflicts(d) == {p \in Path : Cardinality(Competing(d, p)) > 1 /\ Reachable(d, p)}

Materialize(d) ==
  [p \in {q \in Path : Reachable(d, q) /\ Competing(d, q) # {}} |-> ValueAt(d, p)]

\* Mutated form: the value Automerge picks is taken for the agreed one.
PromotePicking(d) ==
  LET m == Materialize(d) IN IF m \in Meaningful THEN {m} ELSE {}

\* AutomergeDraft::promote
Promote(d) ==
  LET m == Materialize(d) IN IF Conflicts(d) = {} /\ m \in Meaningful THEN {m} ELSE {}

(***************************************************************************)
(* Editing.                                                                *)
(***************************************************************************)
\* Mutated form: no look at the revision the caller edited.
ApplyScalarPatchAnyBase(d, expected, patch) ==
  IF /\ patch.path \in Path /\ patch.value # "composite"
     /\ Reachable(d, patch.path)
  THEN {d \cup {[id |-> edits, path |-> patch.path, value |-> patch.value,
                 past |-> d, read |-> {b.id : b \in expected}]}}
  ELSE {}

\* apply_scalar_patch: the document after it, or nothing when it is refused
\* for a stale base, a pointer to no place, a parent that is in conflict or no
\* object, or a value that is no scalar.  A put of the value that is there
\* makes no change.
ApplyScalarPatch(d, expected, patch) ==
  IF /\ d = expected
     /\ patch.path \in Path /\ patch.value # "composite"
     /\ Reachable(d, patch.path)
  THEN IF Conflicts(d) \cap {patch.path} = {} /\ ValueAt(d, patch.path) = patch.value
       THEN {d}
       ELSE {d \cup {[id |-> edits, path |-> patch.path, value |-> patch.value,
                      past |-> d, read |-> {b.id : b \in expected}]}}
  ELSE {}

\* load, and the heads draft-patch reads first
OpenDraft(h) ==
  /\ editor[h] = {} /\ edits < MaxEdits
  /\ editor' = [editor EXCEPT
       ![h] = {[doc |-> file[h], heads |-> file[h], from |-> file[h], patched |-> FALSE]}]
  /\ UNCHANGED <<file, edits>>

\* Mutated form: the other draft takes the place of the editor's.
MergeIntoReplacing(h) ==
  \E e \in editor[h] :
    /\ ~(file[OtherHost(h)] \subseteq e.doc)
    /\ editor' = [editor EXCEPT ![h] = {[e EXCEPT !.doc = file[OtherHost(h)]]}]
    /\ UNCHANGED <<file, edits>>

\* merge: the editor takes in the other host's draft.
MergeInto(h) ==
  \E e \in editor[h] :
    /\ ~(file[OtherHost(h)] \subseteq e.doc)
    /\ editor' = [editor EXCEPT ![h] = {[e EXCEPT !.doc = @ \cup file[OtherHost(h)]]}]
    /\ UNCHANGED <<file, edits>>

\* A patch that is refused ends the command.
PatchDraft(h, patch) ==
  \E e \in editor[h] :
    LET result == ApplyScalarPatch(e.doc, e.heads, patch) IN
    /\ edits < MaxEdits
    /\ editor' = [editor EXCEPT
         ![h] = {[e EXCEPT !.doc = d, !.heads = d, !.patched = TRUE] : d \in result}]
    /\ edits' = IF \E d \in result : d # e.doc THEN edits + 1 ELSE edits
    /\ UNCHANGED file

\* write_bytes of save, to the file that was read or, with --out, to another one,
\* whatever that holds by now.
SaveDraft(h, out) ==
  \E e \in editor[h] :
    /\ e.patched
    /\ file' = [g \in Host |-> IF g = out THEN e.doc ELSE file[g]]
    /\ editor' = [editor EXCEPT ![h] = {}]
    /\ UNCHANGED edits

\* draft-create: its --out may be a draft in use, and is not looked at.
DraftCreate(h) ==
  /\ edits < MaxEdits
  /\ file' = [file EXCEPT ![h] = {Creation(edits)}]
  /\ edits' = edits + 1
  /\ UNCHANGED editor

\* A draft that has been created and copied.
DraftInit ==
  /\ file = [h \in Host |-> {Creation(0)}]
  /\ editor = [h \in Host |-> {}]
  /\ edits = 1

Edit ==
  \E h \in Host :
    \/ OpenDraft(h) \/ MergeInto(h) \/ DraftCreate(h)
    \/ \E out \in Host \cup {"elsewhere"} : SaveDraft(h, out)
    \/ \E patch \in Patch : PatchDraft(h, patch)

-----------------------------------------------------------------------------
(***************************************************************************)
(* Properties.                                                             *)
(***************************************************************************)
Documents == {file[h] : h \in Host} \cup UNION {{e.doc : e \in editor[h]} : h \in Host}

\* An edit replaces only what its editor has read: whatever was merged in
\* between reading the heads and patching makes apply_scalar_patch fail.
EditsReplaceWhatWasRead ==
  \A d \in Documents : \A c \in d :
    \A b \in c.past : b.path = c.path => b.id \in c.read

\* Promotion drops no edit on its own.  Every patch in a promoted draft is in
\* the promoted conversation unless a later edit of the same path, made by someone
\* who had the change in view, replaced it, or the whole object it lies in has been
\* replaced by a scalar that is there in its place.  The latter needs no view of
\* the change and is no conflict; the schema refuses it everywhere but in
\* annotations and in type definitions.
PromotionKeepsEdits ==
  \A d \in Documents : \A m \in Promote(d) : \A c \in {e \in d : ~IsCreation(e)} :
    \/ c.path \in DOMAIN m /\ m[c.path] = c.value
    \/ \E e \in d : e.path = c.path /\ c \in e.past
    \/ \E q \in ParentOf[c.path] \cap DOMAIN m : \E e \in d : e.path = q /\ m[q] = e.value

=============================================================================
