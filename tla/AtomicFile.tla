----------------------------- MODULE AtomicFile -----------------------------
(***************************************************************************)
(* How the fund writes a file: _append_jsonl reads it, and _atomic_write   *)
(* writes the old rows and the new one to a temporary file of a fixed name *)
(* and renames that over the file.  account.save does the same without the *)
(* read.                                                                   *)
(*                                                                         *)
(* Two names lead to inodes, and a process that has opened the temporary   *)
(* file keeps writing to the inode it opened, whatever name leads to it    *)
(* by then.  A write reaches the disk in pieces.                           *)
(***************************************************************************)
EXTENDS Integers, Sequences

CONSTANTS
  Writer,    \* the processes that append to the file
  Row,       \* the rows they append
  Inode,     \* inodes of the directory
  NoInode,   \* a name that leads nowhere
  MaxRows    \* bound: rows of the file

ASSUME AtomicFileAssumption == NoInode \notin Inode /\ MaxRows \in Nat

VARIABLES
  file,      \* the inode path leads to
  tmp,       \* the inode path.tmp leads to, if it exists
  data,      \* the content of every inode
  call,      \* what each writer calls next
  fd,        \* the inode a writer has open
  content    \* what it is to write

fileVars == <<file, tmp, data, call, fd, content>>

TypeOK ==
  /\ file \in Inode
  /\ tmp \in Inode \cup {NoInode}
  /\ data \in [Inode -> Seq(Row)]
  /\ call \in [Writer -> {"idle", "open", "write", "rename"}]
  /\ fd \in [Writer -> Inode \cup {NoInode}]
  /\ \A w \in Writer : call[w] \in {"write", "rename"} => fd[w] \in Inode
  /\ content \in [Writer -> Seq(Row)]

FileInit ==
  /\ file \in Inode
  /\ tmp = NoInode
  /\ data = [i \in Inode |-> << >>]
  /\ call = [w \in Writer |-> "idle"]
  /\ fd = [w \in Writer |-> NoInode]
  /\ content = [w \in Writer |-> << >>]

(* Mutant: the old rows are not read.                                       *)
ReadNothing(w) ==
  /\ call[w] = "idle"
  /\ Len(data[file]) < MaxRows
  /\ \E r \in Row : content' = [content EXCEPT ![w] = <<r>>]
  /\ call' = [call EXCEPT ![w] = "open"]
  /\ UNCHANGED <<file, tmp, data, fd>>

(* path.read_text() *)
ReadText(w) ==
  /\ call[w] = "idle"
  /\ Len(data[file]) < MaxRows
  /\ \E r \in Row : content' = [content EXCEPT ![w] = Append(data[file], r)]
  /\ call' = [call EXCEPT ![w] = "open"]
  /\ UNCHANGED <<file, tmp, data, fd>>

Unused(i) == i # file /\ i # tmp /\ \A w \in Writer : i # fd[w]

(* Mutant: the file itself is opened for writing.                           *)
OpenInPlace(w) ==
  /\ call[w] = "open"
  /\ fd' = [fd EXCEPT ![w] = file]
  /\ tmp' = file
  /\ data' = [data EXCEPT ![file] = << >>]
  /\ call' = [call EXCEPT ![w] = "write"]
  /\ UNCHANGED <<file, content>>

(* tmp.write_text opens path.tmp: what is there is truncated. *)
OpenTmp(w) ==
  /\ call[w] = "open"
  /\ \E i \in Inode :
       /\ IF tmp = NoInode THEN Unused(i) ELSE i = tmp
       /\ fd' = [fd EXCEPT ![w] = i]
       /\ tmp' = i
       /\ data' = [data EXCEPT ![i] = << >>]
  /\ call' = [call EXCEPT ![w] = "write"]
  /\ UNCHANGED <<file, content>>

(* The first n rows reach the inode, over what others wrote there. *)
Overlay(old, new, n) ==
  SubSeq(new, 1, n) \o SubSeq(old, n + 1, Len(old))

WriteTmp(w) ==
  /\ call[w] = "write"
  /\ \E n \in 0 .. Len(content[w]) :
       /\ data' = [data EXCEPT ![fd[w]] = Overlay(@, content[w], n)]
       /\ call' = IF n = Len(content[w]) THEN [call EXCEPT ![w] = "rename"] ELSE call
  /\ UNCHANGED <<file, tmp, fd, content>>

Exit(w) ==
  /\ call' = [call EXCEPT ![w] = "idle"]
  /\ fd' = [fd EXCEPT ![w] = NoInode]
  /\ content' = [content EXCEPT ![w] = << >>]

(* tmp.rename(path); an exception if another writer renamed it away. *)
Rename(w) ==
  /\ call[w] = "rename"
  /\ IF tmp # NoInode
     THEN file' = tmp /\ tmp' = NoInode
     ELSE UNCHANGED <<file, tmp>>
  /\ Exit(w)
  /\ UNCHANGED data

(* The process is killed; what it wrote to path.tmp stays. *)
Crash(w) ==
  /\ call[w] # "idle"
  /\ Exit(w)
  /\ UNCHANGED <<file, tmp, data>>

AppendRow(w) == ReadText(w) \/ OpenTmp(w) \/ WriteTmp(w) \/ Rename(w)

FileNext == \E w \in Writer : AppendRow(w) \/ Crash(w)

FileSpec == FileInit /\ [][FileNext]_fileVars

-----------------------------------------------------------------------------
(* What a reader finds at path. *)
Visible == data[file]

(* account.py:7 promises an "atomic write": what a reader finds changes only *)
(* when a writer renames, and then to all that writer set out to write.  It *)
(* holds of one writer however it crashes, and fails of two that share the  *)
(* temporary name: one renames the inode the other is still writing to.     *)
Published ==
  Visible' # Visible => \E w \in Writer : call[w] = "rename" /\ Visible' = content[w]

WritesAreAtomic == [][Published]_fileVars

Log == INSTANCE AppendLog WITH log <- Visible

(* With one writer the file is an append-only log, across its crashes and   *)
(* the temporary files they leave behind.                                   *)
IsAppendLog == Log!Spec

(* The inductive invariant behind both: the writer's inode is the temporary *)
(* one and never the file's, what it is to write extends the file by a row, *)
(* and when it comes to rename the temporary file holds exactly that.       *)
Exclusive(w) ==
  /\ tmp # file
  /\ call[w] # "idle" => \E r \in Row : content[w] = Append(Visible, r)
  /\ call[w] \in {"write", "rename"} => fd[w] = tmp
  /\ call[w] = "write" => Len(data[fd[w]]) <= Len(content[w])
  /\ call[w] = "rename" => data[fd[w]] = content[w]
=============================================================================
