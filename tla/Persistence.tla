----------------------------- MODULE Persistence -----------------------------
(***************************************************************************)
(* How Registry::save replaces the state file (src/src/persistence.cpp),   *)
(* step by step: the image is encoded under the registry lock, everything  *)
(* after that runs without a lock.  Any number of threads may save at the  *)
(* same time, and all of them use the one temporary name of their process. *)
(*                                                                         *)
(* A name leads to a file; a thread that has a file open keeps writing to  *)
(* it under whatever name it now has.  A file holds an image that reads    *)
(* back, or something that does not: it is truncated when it is opened,    *)
(* and written by one call.                                                *)
(***************************************************************************)
EXTENDS Naturals, FiniteSets, Functions

CONSTANTS Thread, File, None

\* The file system has a file for the state and one for every save.
ASSUME FileAssumption ==
  /\ IsFiniteSet(Thread) /\ IsFiniteSet(File) /\ Cardinality(File) > Cardinality(Thread)
  /\ None \notin File

VARIABLES
  names,    \* "state" and "temp" -> file, for the names that exist
  content,  \* file -> the image that can be read from it, or None
  save      \* thread -> where its save is

disk == <<names, content>>

Idle == [step |-> "idle", image |-> None, file |-> None]

DiskInit == /\ names = << >>
            /\ content = [f \in File |-> None]
            /\ save = [t \in Thread |-> Idle]

Reads(n) == n \in DOMAIN names /\ content[names[n]] # None

\* The files with a name, and those some thread has open: the rest are gone.
Used == (Range(names) \cup {save[t].file : t \in Thread}) \ {None}

Holding(c) == content' = [f \in File |-> IF f \in Used' THEN c[f] ELSE None]

Request(t) == save' = [save EXCEPT ![t].step = "encode"]

Encode(t, image) ==
  /\ save[t].step = "encode"
  /\ save' = [save EXCEPT ![t].step = "open", ![t].image = image]
  /\ UNCHANGED disk

\* fopen(temporary, "wb"): the file of that name is truncated, or created.
Open(t) ==
  /\ save[t].step = "open"
  /\ LET f == IF "temp" \in DOMAIN names THEN names["temp"]
              ELSE CHOOSE g \in File : g \notin Used
     IN  /\ names' = [n \in DOMAIN names \cup {"temp"} |->
                        IF n = "temp" THEN f ELSE names[n]]
         /\ content' = [content EXCEPT ![f] = None]
         /\ save' = [save EXCEPT ![t].step = "write", ![t].file = f]

\* Another thread may have written to the same file since: an image over a
\* longer one leaves the tail of that.
Write(t) ==
  LET f == save[t].file
  IN  /\ save[t].step = "write"
      /\ save' = [save EXCEPT ![t].step = "rename", ![t].file = None]
      /\ UNCHANGED names
      /\ \E i \in {save[t].image} \cup (IF content[f] = None THEN {} ELSE {None}) :
           Holding([content EXCEPT ![f] = i])

\* Mutant of Finish: the image is kept.
FinishKeeps(t) == save' = [save EXCEPT ![t].step = "idle"]

Finish(t) == save' = [save EXCEPT ![t] = Idle]

\* A save that cannot write or rename removes the temporary name, whoever made
\* it.
GiveUp(t) ==
  /\ save[t].step \in {"open", "write", "rename"}
  /\ names' = [n \in DOMAIN names \ {"temp"} |-> names[n]]
  /\ Finish(t) /\ Holding(content)

Rename(t) ==
  /\ save[t].step = "rename"
  /\ names' = IF "temp" \in DOMAIN names
              THEN [n \in {"state"} |-> names["temp"]] ELSE names
  /\ Finish(t) /\ Holding(content)

SaveStep(t, image) ==
  Encode(t, image) \/ Open(t) \/ Write(t) \/ Rename(t)

\* The process ends and its saves stop where they are.  The state file stays; the
\* temporary name holds the process id, so the next process has another one.
Halt == /\ save' = [t \in Thread |-> Idle]
        /\ names' = [n \in DOMAIN names \ {"temp"} |-> names[n]]
        /\ Holding(content)

-----------------------------------------------------------------------------
(***************************************************************************)
(* Names lead to files, a file is open while it is written and no longer,  *)
(* and a thread that does not save holds on to no image.                   *)
(***************************************************************************)
DiskTypeOK(Images) ==
  /\ DOMAIN names \subseteq {"state", "temp"}
  /\ names \in [DOMAIN names -> File]
  /\ content \in [File -> Images \cup {None}]
  /\ \A t \in Thread :
       /\ save[t].step \in {"idle", "encode", "open", "write", "rename"}
       /\ save[t].image \in Images <=> save[t].step \notin {"idle", "encode"}
       /\ save[t].file \in File <=> save[t].step = "write"

(***************************************************************************)
(* README.md, section 9: "Replacement is atomic: the image is written to a *)
(* sibling temporary file, flushed, verified by reading it back, and       *)
(* renamed over the destination."  Whatever the name of the state leads to *)
(* therefore reads back.  Two overlapping saves share the temporary file,  *)
(* and nothing is read back from it (write_all, Registry::save).           *)
(***************************************************************************)
ReplacementIsAtomic == "state" \in DOMAIN names => Reads("state")
=============================================================================
