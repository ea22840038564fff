------------------------------- MODULE FileTree -------------------------------
(****************************************************************************)
(* The file system as src/src/handler.rs uses it: directories, links from   *)
(* names to files, and the contents, which outlive their link for whoever   *)
(* has the file open.  One operator per call of std::fs.                    *)
(****************************************************************************)
EXTENDS Integers, Sequences, FiniteSets

CONSTANT Slash  \* the character "/"

VARIABLES
  dirs,  \* the names of the directories
  link,  \* name -> file, for the names of regular files
  data   \* the contents of the files, as sequences of units

treeVars == <<dirs, link, data>>

\* A name is a sequence of characters; "/" at its end is allowed for directories.
Trim(name) ==
  LET kept == {i \in DOMAIN name : name[i] # Slash} IN
  SubSeq(name, 1, CHOOSE i \in {0} \cup kept : \A j \in kept : j <= i)

\* metadata: a regular file may not be named with a "/" at the end.
metadata(name) ==
  IF Trim(name) \in dirs THEN "dir" ELSE IF name \in DOMAIN link THEN "file" ELSE "none"

Ancestors(name) ==
  {SubSeq(name, 1, i - 1) : i \in {j \in DOMAIN Trim(name) : name[j] = Slash}}
Parent(name) ==
  CHOOSE p \in Ancestors(name) : \A q \in Ancestors(name) : Len(q) <= Len(p)

\* create_dir_all(parent): fails where a file is in the way.
CanMakeDirs(name) == Ancestors(name) \cap DOMAIN link = {}
MakeDirs(name) == dirs' = dirs \cup Ancestors(name) /\ UNCHANGED <<link, data>>

\* open for writing: creates the file, or cuts it to nothing.
CanCreate(name) == name = Trim(name) /\ name \notin dirs /\ Parent(name) \in dirs
Create_KeepContent(name) ==
  /\ IF name \in DOMAIN link THEN UNCHANGED <<link, data>>
     ELSE /\ link' = [n \in DOMAIN link \cup {name} |->
                        IF n = name THEN Len(data) + 1 ELSE link[n]]
          /\ data' = Append(data, << >>)
  /\ UNCHANGED dirs
Create(name) ==
  /\ IF name \in DOMAIN link
     THEN data' = [data EXCEPT ![link[name]] = << >>] /\ UNCHANGED link
     ELSE /\ link' = [n \in DOMAIN link \cup {name} |->
                        IF n = name THEN Len(data) + 1 ELSE link[n]]
          /\ data' = Append(data, << >>)
  /\ UNCHANGED dirs

\* write from the start of the file; what lies behind stays.
Write(f, units) ==
  /\ data' = [data EXCEPT ![f] = units \o SubSeq(@, Len(units) + 1, Len(@))]
  /\ UNCHANGED <<dirs, link>>

\* unlink: whoever has the file open keeps it.
Unlink(name) ==
  /\ link' = [n \in DOMAIN link \ {name} |-> link[n]]
  /\ UNCHANGED <<dirs, data>>

=============================================================================
