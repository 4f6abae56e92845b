----------------------------- MODULE Runbooks ------------------------------
(***************************************************************************)
(* The runbooks: files on the volume, the store that is parsed from all of *)
(* them and kept for the process (app/runbooks/__init__.py), the pages     *)
(* that write them and read them anew (app/api/admin.py, app/api/web.py),  *)
(* the questions that read the store, and the copy of the image's runbooks *)
(* over the volume at every start of the container (Dockerfile).           *)
(*                                                                         *)
(* A title is what a person typed.  No handler awaits between its writes.  *)
(***************************************************************************)
EXTENDS Integers, FiniteSets

CONSTANTS
  Titles,        \* names of runbooks, as they are typed
  Clipped,       \* those with a "---" in them: the front matter is read up to there only
  Unreadable,    \* those with a "---" in text that YAML has to quote: an open quote remains
  Blanked,       \* those with blanks around them, which are stripped before they are written
  SlugOf,        \* slugify, of every title
  Reslug,        \* slugify, of every slug: a slug cut after 80 characters may end in "-"
  Shipped,       \* the titles of the image's runbooks
  MaxSaves,      \* bound: saves
  MaxContainers  \* bound: starts of the container

\* A title is not empty (save_runbook refuses that), and the image's runbooks are well formed.
ASSUME RunbooksAssumption ==
  /\ Clipped \cup Unreadable \cup Blanked \cup Shipped \subseteq Titles
  /\ "" \notin Titles /\ Shipped \cap Clipped = {}
  /\ DOMAIN SlugOf = Titles
  /\ {MaxSaves, MaxContainers} \subseteq Nat

VARIABLES
  volume,   \* the directory: the file of each slug, [title, version] or NoFile
  shelf,    \* _store: NotLoaded, or what was parsed for each slug
  saves,    \* saves so far, which number the versions
  boots,    \* starts of the container
  answered  \* history: for each slug, what the last save or delete that returned left, or Unknown

kvars == <<volume, shelf, saves, boots, answered>>

Slugs == {SlugOf[t] : t \in Titles}
NoFile == [title |-> "", version |-> 0]
NotLoaded == [s \in {} |-> NoFile]
Unknown == [title |-> "?", version |-> 0]

ShippedFile(s) ==
  IF \E t \in Shipped : SlugOf[t] = s
    THEN [title |-> CHOOSE t \in Shipped : SlugOf[t] = s, version |-> 0] ELSE NoFile

RunbooksInit ==
  /\ volume = [s \in Slugs |-> ShippedFile(s)] /\ shelf = NotLoaded
  /\ saves = 0 /\ boots = 1
  /\ answered = [s \in Slugs |-> Unknown]

-----------------------------------------------------------------------------
(* Loading: one file that does not parse and nothing is loaded.            *)

Loadable(files) == \A s \in Slugs : files[s].title \notin Unreadable

\* _parse: of a clipped front matter the rest is taken for the body.
Parsed(file) == IF file.title \in Clipped THEN [file EXCEPT !.title = "clipped"] ELSE file

Loaded(files) == [s \in Slugs |-> Parsed(files[s])]

\* get_runbooks(reload=True) over the files; where it raises, the old store stays.
Reloaded(files) == IF Loadable(files) THEN Loaded(files) ELSE shelf

-----------------------------------------------------------------------------
(* The pages, the questions and the container.                             *)

\* upsert_runbook: the store is loaded by save_runbook, and loaded again to look for the name
\* as it was typed.  A load that raises, or no such name, is a 500, with the file written.
Save(t) ==
  LET slug == SlugOf[t]
      files == [volume EXCEPT ![slug] = [title |-> t, version |-> saves + 1]]
      found == Loadable(files) /\ t \notin Clipped /\ t \notin Blanked
  IN /\ saves < MaxSaves /\ saves' = saves + 1
     /\ volume' = files /\ shelf' = Reloaded(files)
     /\ answered' = [answered EXCEPT ![slug] = IF found THEN files[slug] ELSE Unknown]
     /\ UNCHANGED boots

\* Mutant of Delete: the store is not loaded again.
DeleteOnDisk(s) ==
  LET slug == Reslug[s]
      files == [volume EXCEPT ![slug] = NoFile]
  IN /\ slug \in Slugs /\ volume[slug] # NoFile
     /\ volume' = files
     /\ answered' = [answered EXCEPT ![slug] = NoFile]
     /\ UNCHANGED <<shelf, saves, boots>>

\* remove_runbook: the slug is slugified again, and the file may then not be there (404).
Delete(s) ==
  LET slug == Reslug[s]
      files == [volume EXCEPT ![slug] = NoFile]
  IN /\ slug \in Slugs /\ volume[slug] # NoFile
     /\ volume' = files /\ shelf' = Reloaded(files)
     /\ answered' = [answered EXCEPT ![slug] = IF Loadable(files) THEN NoFile ELSE Unknown]
     /\ UNCHANGED <<saves, boots>>

\* list_runbooks, read_runbook and the page of the runbooks: they load first, and fail if that
\* does.
Browse == shelf' = Reloaded(volume) /\ UNCHANGED <<volume, saves, boots, answered>>

\* The first question of a process loads what the later ones find; while that raises, every
\* question fails.
FirstQuestion ==
  /\ shelf = NotLoaded
  /\ shelf' = Reloaded(volume)
  /\ UNCHANGED <<volume, saves, boots, answered>>

\* The container starts: the files of the image are copied over those on the volume.
ContainerStarts ==
  /\ boots < MaxContainers /\ boots' = boots + 1
  /\ volume' = [s \in Slugs |-> IF ShippedFile(s) # NoFile THEN ShippedFile(s) ELSE volume[s]]
  /\ shelf' = NotLoaded
  /\ UNCHANGED <<saves, answered>>

RunbooksNext ==
  \/ \E t \in Titles : Save(t)
  \/ \E s \in Slugs : Delete(s)
  \/ Browse \/ FirstQuestion \/ ContainerStarts

RunbooksSpec == RunbooksInit /\ [][RunbooksNext]_kvars

-----------------------------------------------------------------------------
\* What a save or a delete was answered for is what the questions are given until the same
\* file is saved or deleted again, except for what a start took back from the image: a store
\* that is older, or a part of it, is never served for it (runbooks/__init__.py:144-151,
\* 237-239, 254).
AnsweredIsServed ==
  shelf # NotLoaded =>
    \A s \in Slugs : answered[s] # Unknown =>
      \/ shelf[s] = answered[s]
      \/ boots > 1 /\ ShippedFile(s) # NoFile /\ shelf[s] = ShippedFile(s)

\* "Nothing writes runbooks at runtime ... so the image is the source of truth and overwriting
\* is correct" (Dockerfile:115-117): no start undoes what a save or a delete was answered for.
StartsUndoNothing ==
  \A s \in Slugs : answered[s] # Unknown => volume[s] = answered[s]
=============================================================================
