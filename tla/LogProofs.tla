----------------------------- MODULE LogProofs ------------------------------
(***************************************************************************)
(* Two logs that readers rely on: the file one writer of the fund appends  *)
(* to, which is an atomic, append-only log however often that writer is    *)
(* killed, and the feed of account changes, which has no gap and no        *)
(* mix-up however often its connection is lost.                            *)
(***************************************************************************)
EXTENDS AtomicFile, StreamProps, SetLemmas, SequenceTheorems, TLAPS

-----------------------------------------------------------------------------
(* The file.                                                                *)

(* What a write that has reached length n makes of an inode whose content   *)
(* is not longer: never longer than the new content, and the new content    *)
(* once all of it is written.                                               *)
LEMMA OverlayLength ==
  ASSUME NEW old \in Seq(Row), NEW new \in Seq(Row), Len(old) <= Len(new),
         NEW n \in 0 .. Len(new)
  PROVE  /\ Overlay(old, new, n) \in Seq(Row)
         /\ Len(Overlay(old, new, n)) <= Len(new)
<1>1. SubSeq(new, 1, n) \in Seq(Row) /\ Len(SubSeq(new, 1, n)) = n
  OBVIOUS
<1>2. SubSeq(old, n + 1, Len(old)) \in Seq(Row)
  OBVIOUS
<1>3. Len(SubSeq(old, n + 1, Len(old))) <= Len(new) - n
  OBVIOUS
<1>4. Overlay(old, new, n) \in Seq(Row)
  BY <1>1, <1>2, ConcatProperties DEF Overlay
<1>5. Len(Overlay(old, new, n)) = n + Len(SubSeq(old, n + 1, Len(old)))
  BY <1>1, <1>2, ConcatProperties DEF Overlay
<1>6. QED
  BY <1>2, <1>3, <1>4, <1>5

LEMMA OverlayWhole ==
  ASSUME NEW old \in Seq(Row), NEW new \in Seq(Row), Len(old) <= Len(new)
  PROVE  Overlay(old, new, Len(new)) = new
<1>1. SubSeq(new, 1, Len(new)) = new
  OBVIOUS
<1>2. SubSeq(old, Len(new) + 1, Len(old)) = << >>
  OBVIOUS
<1>3. QED
  BY <1>1, <1>2, ConcatEmptySeq DEF Overlay

(* The names lead to inodes, inodes hold rows, and a writer that writes has *)
(* a file open, for any number of writers.                                  *)
THEOREM FileTypeCorrect == FileSpec => []TypeOK
<1>1. FileInit => TypeOK
  BY AtomicFileAssumption DEF FileInit, TypeOK
<1>2. TypeOK /\ [FileNext]_fileVars => TypeOK'
  <2> SUFFICES ASSUME TypeOK, [FileNext]_fileVars PROVE TypeOK'
    OBVIOUS
  <2>1. CASE UNCHANGED fileVars
    BY <2>1 DEF TypeOK, fileVars
  <2>2. ASSUME NEW w \in Writer, ReadText(w) PROVE TypeOK'
    BY <2>2 DEF TypeOK, ReadText
  <2>3. ASSUME NEW w \in Writer, OpenTmp(w) PROVE TypeOK'
    BY <2>3 DEF TypeOK, OpenTmp
  <2>4. ASSUME NEW w \in Writer, WriteTmp(w) PROVE TypeOK'
    <3>1. PICK n \in 0 .. Len(content[w]) :
            /\ data' = [data EXCEPT ![fd[w]] = Overlay(@, content[w], n)]
            /\ call' = IF n = Len(content[w]) THEN [call EXCEPT ![w] = "rename"] ELSE call
      BY <2>4 DEF WriteTmp
    <3>2. fd[w] \in Inode /\ content[w] \in Seq(Row) /\ data[fd[w]] \in Seq(Row)
      BY <2>4 DEF TypeOK, WriteTmp
    <3>3. Overlay(data[fd[w]], content[w], n) \in Seq(Row)
      <4>1. SubSeq(content[w], 1, n) \in Seq(Row)
        BY <3>2
      <4>2. SubSeq(data[fd[w]], n + 1, Len(data[fd[w]])) \in Seq(Row)
        BY <3>2
      <4>3. QED
        BY <4>1, <4>2, ConcatProperties DEF Overlay
    <3>4. data' \in [Inode -> Seq(Row)]
      BY <3>1, <3>2, <3>3 DEF TypeOK
    <3>5. QED
      BY <2>4, <3>1, <3>4 DEF TypeOK, WriteTmp
  <2>5. ASSUME NEW w \in Writer, Rename(w) PROVE TypeOK'
    BY <2>5 DEF TypeOK, Rename, Exit
  <2>6. ASSUME NEW w \in Writer, Crash(w) PROVE TypeOK'
    BY <2>6 DEF TypeOK, Crash, Exit
  <2>7. QED
    BY <2>1, <2>2, <2>3, <2>4, <2>5, <2>6 DEF FileNext, AppendRow
<1>3. QED
  BY <1>1, <1>2, PTL DEF FileSpec

-----------------------------------------------------------------------------
(* The rest is about a single writer. *)

Alone(w) == Writer = {w}

LEMMA ExclusiveStep ==
  ASSUME NEW w \in Writer, Alone(w), TypeOK, Exclusive(w), [FileNext]_fileVars
  PROVE  Exclusive(w)'
<1>1. CASE UNCHANGED fileVars
  BY <1>1 DEF Exclusive, Visible, fileVars
<1>2. CASE ReadText(w)
  BY <1>2 DEF ReadText, Exclusive, Visible, TypeOK
<1>3. CASE OpenTmp(w)
  <2>1. PICK i \in Inode :
          /\ IF tmp = NoInode THEN Unused(i) ELSE i = tmp
          /\ fd' = [fd EXCEPT ![w] = i]
          /\ tmp' = i
          /\ data' = [data EXCEPT ![i] = << >>]
    BY <1>3 DEF OpenTmp
  <2>2. i # file
    BY <2>1 DEF Unused, Exclusive
  <2>3. Visible' = Visible
    BY <1>3, <2>1, <2>2 DEF OpenTmp, Visible, TypeOK
  <2>4. content[w] \in Seq(Row) /\ data'[i] = << >>
    BY <2>1 DEF TypeOK
  <2>5. call'[w] = "write" /\ fd'[w] = i /\ content' = content /\ file' = file
    BY <1>3, <2>1 DEF OpenTmp, TypeOK
  <2>6. QED
    BY <1>3, <2>1, <2>2, <2>3, <2>4, <2>5 DEF OpenTmp, Exclusive
<1>4. CASE WriteTmp(w)
  <2>1. PICK n \in 0 .. Len(content[w]) :
          /\ data' = [data EXCEPT ![fd[w]] = Overlay(@, content[w], n)]
          /\ call' = IF n = Len(content[w]) THEN [call EXCEPT ![w] = "rename"] ELSE call
    BY <1>4 DEF WriteTmp
  <2>2. /\ fd[w] \in Inode /\ fd[w] = tmp /\ fd[w] # file
        /\ content[w] \in Seq(Row) /\ data[fd[w]] \in Seq(Row)
        /\ Len(data[fd[w]]) <= Len(content[w])
    BY <1>4 DEF TypeOK, Exclusive, WriteTmp
  <2>3. Visible' = Visible
    BY <1>4, <2>1, <2>2 DEF Visible, TypeOK, WriteTmp
  <2>4. data'[fd[w]] = Overlay(data[fd[w]], content[w], n)
    BY <2>1, <2>2 DEF TypeOK
  <2>5. Len(data'[fd[w]]) <= Len(content[w])
    BY <2>2, <2>4, OverlayLength
  <2>6. n = Len(content[w]) => data'[fd[w]] = content[w]
    BY <2>2, <2>4, OverlayWhole
  <2>7. call'[w] = "rename" => n = Len(content[w])
    BY <1>4, <2>1 DEF WriteTmp, TypeOK
  <2>8. /\ UNCHANGED <<file, tmp, fd, content>>
        /\ call[w] = "write" /\ call'[w] \in {"write", "rename"}
    BY <1>4, <2>1 DEF WriteTmp, TypeOK
  <2>9. QED
    BY <2>2, <2>3, <2>5, <2>6, <2>7, <2>8 DEF Exclusive
<1>5. CASE Rename(w)
  BY <1>5, AtomicFileAssumption DEF Rename, Exit, Exclusive, TypeOK
<1>6. CASE Crash(w)
  BY <1>6 DEF Crash, Exit, Exclusive, TypeOK
<1>7. QED
  BY <1>1, <1>2, <1>3, <1>4, <1>5, <1>6 DEF FileNext, AppendRow, Alone

LEMMA ExclusiveInvariant ==
  ASSUME NEW w \in Writer, Alone(w)
  PROVE  FileSpec => []Exclusive(w)
<1>1. FileInit => Exclusive(w)
  BY AtomicFileAssumption DEF FileInit, Exclusive
<1>2. TypeOK /\ Exclusive(w) /\ [FileNext]_fileVars => Exclusive(w)'
  BY ExclusiveStep
<1>3. QED
  BY <1>1, <1>2, FileTypeCorrect, PTL DEF FileSpec

(* A single writer's step changes what a reader finds only when it renames, *)
(* and then to what it set out to write, which is one row more.             *)
LEMMA VisibleStep ==
  ASSUME NEW w \in Writer, Alone(w), TypeOK, Exclusive(w), [FileNext]_fileVars,
         Visible' # Visible
  PROVE  /\ call[w] = "rename"
         /\ Visible' = content[w]
         /\ \E r \in Row : content[w] = Append(Visible, r)
<1>1. CASE UNCHANGED fileVars
  BY <1>1 DEF Visible, fileVars
<1>2. CASE ReadText(w)
  BY <1>2 DEF ReadText, Visible
<1>3. CASE OpenTmp(w)
  BY <1>3 DEF OpenTmp, Unused, Exclusive, Visible, TypeOK
<1>4. CASE WriteTmp(w)
  BY <1>4 DEF WriteTmp, Exclusive, Visible, TypeOK
<1>5. CASE Rename(w)
  BY <1>5, AtomicFileAssumption DEF Rename, Exclusive, Visible, TypeOK
<1>6. CASE Crash(w)
  BY <1>6 DEF Crash, Visible
<1>7. QED
  BY <1>1, <1>2, <1>3, <1>4, <1>5, <1>6 DEF FileNext, AppendRow, Alone

(* The "atomic write" of account.py:7 is one, as long as one process writes *)
(* the file: a crash at any point, in the middle of a write included,       *)
(* leaves the old content in place.                                         *)
THEOREM OneWriterIsAtomic ==
  ASSUME NEW w \in Writer, Alone(w)
  PROVE  FileSpec => WritesAreAtomic
<1>1. TypeOK /\ Exclusive(w) /\ [FileNext]_fileVars => [Published]_fileVars
  BY VisibleStep DEF Published
<1>2. FileSpec => []Exclusive(w)
  BY ExclusiveInvariant
<1>3. QED
  BY <1>1, <1>2, FileTypeCorrect, PTL DEF FileSpec, WritesAreAtomic

(* And _append_jsonl makes the file an append-only log.                     *)
THEOREM OneWriterAppends ==
  ASSUME NEW w \in Writer, Alone(w)
  PROVE  FileSpec => IsAppendLog
<1>1. FileInit => Log!Init
  BY DEF FileInit, Log!Init, Visible
<1>2. TypeOK /\ Exclusive(w) /\ [FileNext]_fileVars => [Log!Next]_Visible
  <2> SUFFICES ASSUME TypeOK, Exclusive(w), [FileNext]_fileVars, Visible' # Visible
               PROVE  Log!Next
    OBVIOUS
  <2>1. Visible' = content[w] /\ \E r \in Row : content[w] = Append(Visible, r)
    BY VisibleStep
  <2>2. QED
    BY <2>1 DEF Log!Next
<1>3. FileSpec => []Exclusive(w)
  BY ExclusiveInvariant
<1>4. QED
  BY <1>1, <1>2, <1>3, FileTypeCorrect, PTL DEF FileSpec, IsAppendLog, Log!Spec

-----------------------------------------------------------------------------
(* The feed: what a wire notifies of, as the recursion over its frames      *)
(* gives it.                                                                *)

(* The notifications among the first n frames.                              *)
Entry(w, m, i) == <<m[w[i].sub], w[i].slot>>

IsNotedUpTo(h, w, m) ==
  h = [n \in 0 .. Len(w) |->
         IF n = 0 THEN << >>
         ELSE IF w[n].kind = "notified"
              THEN Append(h[n - 1], <<m[w[n].sub], w[n].slot>>)
              ELSE h[n - 1]]
UpToOf(w, m) == CHOOSE h : IsNotedUpTo(h, w, m)

LEMMA NotifiedUnfolded == \A w, m : NotifiedIn(w, m) = UpToOf(w, m)[Len(w)]
BY DEF NotifiedIn, UpToOf, IsNotedUpTo

(* What the recursion says at a place, as long as it has got that far.      *)
Follows(h, w, m, n) ==
  h[n] = IF n = 0 THEN << >>
         ELSE IF w[n].kind = "notified" THEN Append(h[n - 1], Entry(w, m, n)) ELSE h[n - 1]

FollowsTo(h, w, m, N) == \A n \in 0 .. N : Follows(h, w, m, n)

(* A frame that shows a member of R; frames of which the same is said; and  *)
(* what the first frame says.                                               *)
Shows(w, m, n, R) == w[n].kind = "notified" => Entry(w, m, n) \in R
Agree(w, m, v, k, n) ==
  w[n] = v[n] /\ (w[n].kind = "notified" => Entry(w, m, n) = Entry(v, k, n))
AgreeTo(w, m, v, k, N) == \A n \in 1 .. N : Agree(w, m, v, k, n)
TailTo(w, v, N) == \A n \in 1 .. N - 1 : v[n] = w[n + 1]
ShowsTo(w, m, N, R) == \A n \in 1 .. N : Shows(w, m, n, R)
Leading(w, m) == IF w[1].kind = "notified" THEN <<Entry(w, m, 1)>> ELSE << >>

LEMMA UpToExists ==
  ASSUME NEW w, NEW m, NEW N \in Nat, Len(w) = N
  PROVE  \E h : NotifiedIn(w, m) = h[N] /\ FollowsTo(h, w, m, N)
<1>1. PICK T : T = {k \in 0 .. N : ~\E h : \A n \in 0 .. k : Follows(h, w, m, n)}
  OBVIOUS
<1>2. T = {}
  <2> SUFFICES ASSUME T # {} PROVE FALSE
    OBVIOUS
  <2>1. IsFiniteSet(T)
    <3>1. IsFiniteSet(0 .. N)
      BY FS_Interval
    <3>2. T \in SUBSET (0 .. N)
      BY <1>1
    <3> QED
      BY <3>1, <3>2, FS_Subset
  <2>2. \A k \in T : k \in Nat
    BY <1>1
  <2>3. PICK k \in T : \A j \in T : k <= j
    BY <2>1, <2>2, SmallestExists
  <2>4. k \in 0 .. N /\ ~\E h : \A n \in 0 .. k : Follows(h, w, m, n)
    BY <1>1
  <2>5. k # 0
    <3> SUFFICES ASSUME k = 0 PROVE FALSE
      OBVIOUS
    <3>1. PICK h : h = [n \in 0 .. 0 |-> << >>]
      OBVIOUS
    <3>2. h[0] = << >>
      BY <3>1
    <3>3. \A n \in 0 .. k : Follows(h, w, m, n)
      BY <3>2 DEF Follows
    <3> QED
      BY <2>4, <3>3
  <2>6. k - 1 \in 0 .. N /\ k - 1 \notin T
    BY <2>2, <2>3, <2>4, <2>5
  <2>7. PICK g : \A n \in 0 .. k - 1 : Follows(g, w, m, n)
    BY <1>1, <2>6
  <2>8. PICK last : last = IF w[k].kind = "notified" THEN Append(g[k - 1], Entry(w, m, k)) ELSE g[k - 1]
    OBVIOUS
  <2>9. PICK h : h = [n \in 0 .. k |-> IF n = k THEN last ELSE g[n]]
    OBVIOUS
  <2>10. ASSUME NEW n \in 0 .. k PROVE Follows(h, w, m, n)
    <3>1. CASE n = k
      <4>1. h[k - 1] = g[k - 1] /\ h[k] = last
        BY <2>4, <2>5, <2>9
      <4> QED
        BY <2>5, <2>8, <3>1, <4>1 DEF Follows
    <3>2. CASE n # k
      <4>1. n \in 0 .. k - 1
        BY <2>4, <3>2
      <4>2. h[n] = g[n] /\ (n # 0 => h[n - 1] = g[n - 1])
        BY <2>4, <2>9, <4>1
      <4>3. Follows(g, w, m, n)
        BY <2>7, <4>1
      <4> QED
        BY <4>2, <4>3 DEF Follows
    <3> QED
      BY <3>1, <3>2
  <2> QED
    BY <2>4, <2>10
<1>3. PICK g : \A n \in 0 .. N : Follows(g, w, m, n)
  BY <1>1, <1>2
<1>4. PICK h : h = [n \in 0 .. N |-> g[n]]
  OBVIOUS
<1>5. IsNotedUpTo(h, w, m)
  <2>1. ASSUME NEW n \in 0 .. N
        PROVE  h[n] = IF n = 0 THEN << >>
                      ELSE IF w[n].kind = "notified"
                           THEN Append(h[n - 1], <<m[w[n].sub], w[n].slot>>)
                           ELSE h[n - 1]
    <3>1. h[n] = g[n] /\ (n # 0 => h[n - 1] = g[n - 1])
      BY <1>4
    <3>2. Follows(g, w, m, n)
      BY <1>3
    <3> QED
      BY <3>1, <3>2 DEF Follows, Entry
  <2>2. h = [n \in 0 .. N |-> h[n]]
    BY <1>4
  <2> QED
    BY <2>1, <2>2 DEF IsNotedUpTo
<1>6. PICK f : f = UpToOf(w, m)
  OBVIOUS
<1>7. IsNotedUpTo(f, w, m)
  BY <1>5, <1>6 DEF UpToOf
<1>8. FollowsTo(f, w, m, N)
  BY <1>7 DEF IsNotedUpTo, FollowsTo, Follows, Entry
<1>9. NotifiedIn(w, m) = f[N]
  BY <1>6, NotifiedUnfolded
<1> QED
  BY <1>8, <1>9

(* Induction up to a number.                                                *)
LEMMA CountedUp ==
  ASSUME NEW N \in Nat, NEW P \in SUBSET (0 .. N), 0 \in P,
         \A n \in 0 .. N - 1 : n \in P => n + 1 \in P
  PROVE  \A n \in 0 .. N : n \in P
<1>1. PICK T : T = (0 .. N) \ P
  OBVIOUS
<1> SUFFICES ASSUME T # {} PROVE FALSE
  BY <1>1
<1>2. IsFiniteSet(T)
  <2>1. IsFiniteSet(0 .. N)
    BY FS_Interval
  <2>2. T \in SUBSET (0 .. N)
    BY <1>1
  <2> QED
    BY <2>1, <2>2, FS_Subset
<1>3. \A n \in T : n \in Nat
  BY <1>1
<1>4. PICK k \in T : \A j \in T : k <= j
  BY <1>2, <1>3, SmallestExists
<1>5. k - 1 \in 0 .. N - 1 /\ k - 1 \notin T
  BY <1>1, <1>3, <1>4
<1>6. k - 1 \in P
  BY <1>1, <1>5
<1>7. (k - 1) + 1 \in P /\ (k - 1) + 1 = k
  BY <1>1, <1>5, <1>6
<1> QED
  BY <1>1, <1>7

LEMMA UpToAgrees ==
  ASSUME NEW N \in Nat, NEW h, NEW w, NEW m, NEW g, NEW v, NEW k,
         FollowsTo(h, w, m, N), FollowsTo(g, v, k, N), AgreeTo(w, m, v, k, N)
  PROVE  h[N] = g[N]
<1>0. /\ \A n \in 0 .. N : Follows(h, w, m, n) /\ Follows(g, v, k, n)
      /\ \A n \in 1 .. N : Agree(w, m, v, k, n)
  BY DEF FollowsTo, AgreeTo
<1>1. PICK P : P = {n \in 0 .. N : h[n] = g[n]}
  OBVIOUS
<1>2. 0 \in P
  <2>1. 0 \in 0 .. N
    OBVIOUS
  <2>2. Follows(h, w, m, 0) /\ Follows(g, v, k, 0)
    BY <1>0, <2>1
  <2> QED
    BY <1>1, <2>1, <2>2 DEF Follows
<1>3. ASSUME NEW n \in 0 .. N - 1, n \in P PROVE n + 1 \in P
  <2>1. PICK i \in 1 .. N : i = n + 1 /\ i - 1 = n
    OBVIOUS
  <2>2. Follows(h, w, m, i) /\ Follows(g, v, k, i)
    BY <1>0, <2>1
  <2>3. h[i - 1] = g[i - 1]
    BY <1>1, <1>3, <2>1
  <2>4. w[i] = v[i] /\ (w[i].kind = "notified" => Entry(w, m, i) = Entry(v, k, i))
    BY <1>0, <2>1 DEF Agree
  <2>5. h[i] = g[i]
    BY <2>1, <2>2, <2>3, <2>4 DEF Follows
  <2> QED
    BY <1>1, <2>1, <2>5
<1>4. \A n \in 0 .. N : n \in P
  BY <1>1, <1>2, <1>3, CountedUp
<1> QED
  BY <1>1, <1>4

LEMMA UpToType ==
  ASSUME NEW N \in Nat, NEW h, NEW w, NEW m, NEW R, FollowsTo(h, w, m, N), ShowsTo(w, m, N, R)
  PROVE  \A n \in 0 .. N : h[n] \in Seq(R)
<1>0. (\A n \in 0 .. N : Follows(h, w, m, n)) /\ \A n \in 1 .. N : Shows(w, m, n, R)
  BY DEF FollowsTo, ShowsTo
<1>1. PICK P : P = {n \in 0 .. N : h[n] \in Seq(R)}
  OBVIOUS
<1>2. 0 \in P
  <2>1. 0 \in 0 .. N
    OBVIOUS
  <2>2. Follows(h, w, m, 0)
    BY <1>0, <2>1
  <2>3. h[0] = << >>
    BY <2>2 DEF Follows
  <2>4. << >> \in Seq(R)
    OBVIOUS
  <2> QED
    BY <1>1, <2>1, <2>3, <2>4
<1>3. ASSUME NEW n \in 0 .. N - 1, n \in P PROVE n + 1 \in P
  <2>1. PICK i \in 1 .. N : i = n + 1 /\ i - 1 = n
    OBVIOUS
  <2>2. PICK s \in Seq(R) : s = h[i - 1]
    BY <1>1, <1>3, <2>1
  <2>3. h[i] = IF w[i].kind = "notified" THEN Append(s, Entry(w, m, i)) ELSE s
    <3>1. Follows(h, w, m, i)
      BY <1>0, <2>1
    <3> QED
      BY <2>1, <2>2, <3>1 DEF Follows
  <2>4. h[i] \in Seq(R)
    BY <1>0, <2>1, <2>3 DEF Shows
  <2> QED
    BY <1>1, <2>1, <2>4
<1>4. \A n \in 0 .. N : n \in P
  BY <1>1, <1>2, <1>3, CountedUp
<1> QED
  BY <1>1, <1>4

Begins(s, t) == Len(s) \in 0 .. Len(t) /\ s = SubSeq(t, 1, Len(s))

(* What was notified of first comes first.                                  *)
LEMMA UpToGrows ==
  ASSUME NEW N \in Nat, NEW h, NEW w, NEW m, NEW R, FollowsTo(h, w, m, N), ShowsTo(w, m, N, R),
         NEW c \in 0 .. N
  PROVE  Begins(h[c], h[N])
<1>0. \A n \in 0 .. N : h[n] \in Seq(R)
  BY UpToType
<1>1. PICK P : P = {n \in 0 .. N : c <= n => Begins(h[c], h[n])}
  OBVIOUS
<1>2. Begins(h[c], h[c])
  <2>1. PICK s \in Seq(R) : s = h[c]
    BY <1>0
  <2>2. Len(s) <= Len(s) /\ s = SubSeq(s, 1, Len(s))
    OBVIOUS
  <2> QED
    BY <2>1, <2>2 DEF Begins
<1>3. 0 \in P
  <2>1. c <= 0 => c = 0
    OBVIOUS
  <2> QED
    BY <1>1, <1>2, <2>1
<1>4. ASSUME NEW n \in 0 .. N - 1, n \in P PROVE n + 1 \in P
  <2>1. PICK i \in 1 .. N : i = n + 1 /\ i - 1 = n
    OBVIOUS
  <2>2. CASE c = i
    BY <1>1, <1>2, <2>1, <2>2
  <2>3. CASE c # i
    <3> SUFFICES ASSUME c <= i PROVE Begins(h[c], h[i])
      BY <1>1, <2>1
    <3>1. Begins(h[c], h[n])
      BY <1>1, <1>4, <2>1, <2>3
    <3>2. PICK s \in Seq(R), t \in Seq(R) : s = h[c] /\ t = h[n]
      BY <1>0, <2>1
    <3>3. h[i] = t \/ (Entry(w, m, i) \in R /\ h[i] = Append(t, Entry(w, m, i)))
      <4>1. Follows(h, w, m, i) /\ Shows(w, m, i, R)
        BY <2>1 DEF FollowsTo, ShowsTo
      <4> QED
        BY <2>1, <3>2, <4>1 DEF Follows, Shows
    <3>4. ASSUME NEW x \in R PROVE Begins(s, Append(t, x))
      <4>1. Len(s) <= Len(t) /\ s = SubSeq(t, 1, Len(s))
        BY <3>1, <3>2 DEF Begins
      <4>2. SubSeq(Append(t, x), 1, Len(s)) = SubSeq(t, 1, Len(s)) /\ Len(Append(t, x)) = Len(t) + 1
        BY <4>1
      <4> QED
        BY <4>1, <4>2 DEF Begins
    <3> QED
      BY <3>1, <3>2, <3>3, <3>4
  <2> QED
    BY <2>2, <2>3
<1>5. \A n \in 0 .. N : n \in P
  BY <1>1, <1>3, <1>4, CountedUp
<1> QED
  BY <1>1, <1>5

(* The first frame apart from the others.                                   *)
LEMMA UpToTail ==
  ASSUME NEW N \in Nat \ {0}, NEW h, NEW w, NEW m, NEW R, FollowsTo(h, w, m, N),
         NEW g, NEW v, FollowsTo(g, v, m, N - 1), TailTo(w, v, N), ShowsTo(w, m, N, R)
  PROVE  h[N] = Leading(w, m) \o g[N - 1]
<1>0. /\ \A n \in 0 .. N : Follows(h, w, m, n)
      /\ \A n \in 0 .. N - 1 : Follows(g, v, m, n)
      /\ \A n \in 1 .. N - 1 : v[n] = w[n + 1]
      /\ \A n \in 1 .. N : Shows(w, m, n, R)
  BY DEF FollowsTo, TailTo, ShowsTo
<1>11. PICK first : first = Leading(w, m)
  OBVIOUS
<1>1. first = IF w[1].kind = "notified" THEN <<Entry(w, m, 1)>> ELSE << >>
  BY <1>11 DEF Leading
<1>2. first \in Seq(R)
  <2>1. Shows(w, m, 1, R)
    BY <1>0
  <2> QED
    BY <1>1, <2>1 DEF Shows
<1>3. ShowsTo(v, m, N - 1, R)
  <2> SUFFICES ASSUME NEW n \in 1 .. N - 1, v[n].kind = "notified" PROVE Entry(v, m, n) \in R
    BY DEF ShowsTo, Shows
  <2>1. n + 1 \in 1 .. N /\ v[n] = w[n + 1]
    BY <1>0
  <2>2. Entry(v, m, n) = Entry(w, m, n + 1) /\ Shows(w, m, n + 1, R)
    BY <1>0, <2>1 DEF Entry
  <2> QED
    BY <2>1, <2>2 DEF Shows
<1>4. \A n \in 0 .. N - 1 : g[n] \in Seq(R)
  <2>1. PICK k \in Nat : k = N - 1
    OBVIOUS
  <2> QED
    BY <1>3, <2>1, UpToType
<1>5. PICK k \in Nat : k = N - 1
  OBVIOUS
<1>6. PICK P : P = {n \in 0 .. k : h[n + 1] = first \o g[n]}
  OBVIOUS
<1>7. 0 \in P
  <2>1. 0 \in 0 .. N /\ 1 \in 0 .. N /\ 0 \in 0 .. N - 1
    OBVIOUS
  <2>2. Follows(h, w, m, 0) /\ Follows(h, w, m, 1) /\ Follows(g, v, m, 0)
    BY <1>0, <2>1
  <2>3. h[0] = << >> /\ g[0] = << >>
    BY <2>2 DEF Follows
  <2>4. h[1] = first
    <3>1. h[1] = IF w[1].kind = "notified" THEN Append(h[0], Entry(w, m, 1)) ELSE h[0]
      <4>1. 1 # 0 /\ 1 - 1 = 0
        OBVIOUS
      <4> QED
        BY <2>2, <4>1, Zenon DEF Follows
    <3>2. PICK x : x = Entry(w, m, 1)
      OBVIOUS
    <3>3. Append(<< >>, x) = <<x>>
      OBVIOUS
    <3> QED
      BY <1>1, <2>3, <3>1, <3>2, <3>3
  <2>5. first \o << >> = first
    BY <1>2
  <2>6. h[0 + 1] = first \o g[0] /\ 0 \in 0 .. k
    <3>1. 0 + 1 = 1
      OBVIOUS
    <3> QED
      BY <2>3, <2>4, <2>5, <3>1
  <2> QED
    BY <1>6, <2>6
<1>8. ASSUME NEW n \in 0 .. k - 1, n \in P PROVE n + 1 \in P
  <2>1. PICK i \in 1 .. k : i = n + 1 /\ i - 1 = n
    OBVIOUS
  <2>2. PICK j \in 1 .. N : j = i + 1 /\ j - 1 = i
    BY <1>5
  <2>3. h[i] = first \o g[n]
    BY <1>6, <1>8, <2>1
  <2>4. PICK t \in Seq(R) : t = g[n]
    BY <1>4, <1>5
  <2>5. v[i] = w[j] /\ Entry(v, m, i) = Entry(w, m, j)
    BY <1>0, <1>5, <2>1, <2>2 DEF Entry
  <2>6. g[i] = IF v[i].kind = "notified" THEN Append(t, Entry(v, m, i)) ELSE t
    <3>1. Follows(g, v, m, i)
      BY <1>0, <1>5, <2>1
    <3> QED
      BY <2>1, <2>4, <3>1 DEF Follows
  <2>7. h[j] = IF w[j].kind = "notified" THEN Append(h[i], Entry(w, m, j)) ELSE h[i]
    <3>1. Follows(h, w, m, j)
      BY <1>0, <2>2
    <3> QED
      BY <2>2, <3>1 DEF Follows
  <2> SUFFICES h[j] = first \o g[i]
    BY <1>6, <2>1, <2>2
  <2>8. CASE w[j].kind = "notified"
    <3>1. PICK x \in R : x = Entry(w, m, j)
      BY <1>0, <2>2, <2>8 DEF Shows
    <3>2. Append(first \o t, x) = first \o Append(t, x)
      BY <1>2
    <3>3. h[j] = Append(first \o t, x) /\ g[i] = Append(t, x)
      BY <2>3, <2>4, <2>5, <2>6, <2>7, <2>8, <3>1
    <3> QED
      BY <2>2, <3>2, <3>3, Zenon
  <2>9. CASE w[j].kind # "notified"
    <3>1. h[j] = first \o t /\ g[i] = t
      BY <2>3, <2>4, <2>5, <2>6, <2>7, <2>9
    <3> QED
      BY <2>2, <3>1, Zenon
  <2> QED
    BY <2>8, <2>9
<1>9. \A n \in 0 .. k : n \in P
  BY <1>6, <1>7, <1>8, CountedUp
<1>10. h[k + 1] = first \o g[k] /\ k + 1 = N
  BY <1>5, <1>6, <1>9
<1> QED
  BY <1>11, <1>5, <1>10

Entries(w, m, R) == \A i \in DOMAIN w : Shows(w, m, i, R)

LEMMA NotifiedType ==
  ASSUME NEW F, NEW w \in Seq(F), NEW m, NEW R, Entries(w, m, R)
  PROVE  NotifiedIn(w, m) \in Seq(R)
<1>1. PICK N \in Nat : N = Len(w) /\ DOMAIN w = 1 .. N
  OBVIOUS
<1>2. PICK h : NotifiedIn(w, m) = h[N] /\ FollowsTo(h, w, m, N)
  BY <1>1, UpToExists
<1>3. ShowsTo(w, m, N, R)
  BY <1>1 DEF Entries, ShowsTo
<1>4. h[N] \in Seq(R)
  <2>1. \A n \in 0 .. N : h[n] \in Seq(R)
    BY <1>2, <1>3, UpToType
  <2> QED
    BY <2>1
<1> QED
  BY <1>2, <1>4

LEMMA NotifiedOfNothing ==
  ASSUME NEW m
  PROVE  NotifiedIn(<< >>, m) = << >>
<1>1. PICK h : NotifiedIn(<< >>, m) = h[0] /\ FollowsTo(h, << >>, m, 0)
  <2>1. Len(<< >>) = 0
    OBVIOUS
  <2> QED
    BY <2>1, UpToExists
<1>2. Follows(h, << >>, m, 0)
  BY <1>1 DEF FollowsTo
<1> QED
  BY <1>1, <1>2 DEF Follows

(* A frame more, with what was notified of before meaning the same.         *)
LEMMA NotifiedMore ==
  ASSUME NEW F, NEW w \in Seq(F), NEW m, NEW k, NEW f \in F,
         \A i \in DOMAIN w : w[i].kind = "notified" => Entry(w, m, i) = Entry(w, k, i)
  PROVE  NotifiedIn(Append(w, f), k)
           = IF f.kind = "notified" THEN Append(NotifiedIn(w, m), <<k[f.sub], f.slot>>)
             ELSE NotifiedIn(w, m)
<1>1. PICK N \in Nat : N = Len(w) /\ DOMAIN w = 1 .. N
  OBVIOUS
<1>2. PICK v : v = Append(w, f)
  OBVIOUS
<1>3. Len(v) = N + 1 /\ N + 1 \in Nat /\ v[N + 1] = f /\ \A n \in 1 .. N : v[n] = w[n]
  BY <1>1, <1>2
<1>4. PICK h : NotifiedIn(w, m) = h[N] /\ FollowsTo(h, w, m, N)
  BY <1>1, UpToExists
<1>5. PICK g : NotifiedIn(v, k) = g[N + 1] /\ FollowsTo(g, v, k, N + 1)
  BY <1>3, UpToExists
<1>6. FollowsTo(g, v, k, N)
  BY <1>5 DEF FollowsTo
<1>7. AgreeTo(w, m, v, k, N)
  <2> SUFFICES ASSUME NEW n \in 1 .. N PROVE Agree(w, m, v, k, n)
    BY DEF AgreeTo
  <2>1. w[n] = v[n]
    BY <1>3
  <2>2. Entry(v, k, n) = Entry(w, k, n)
    BY <2>1 DEF Entry
  <2> QED
    BY <1>1, <2>1, <2>2 DEF Agree
<1>9. h[N] = g[N]
  BY <1>4, <1>6, <1>7, UpToAgrees
<1>10. g[N + 1] = IF f.kind = "notified" THEN Append(g[N], Entry(v, k, N + 1)) ELSE g[N]
  <2>1. PICK i \in 0 .. N + 1 : i = N + 1 /\ i # 0 /\ i - 1 = N
    OBVIOUS
  <2>2. Follows(g, v, k, i) /\ v[i] = f
    BY <1>3, <1>5, <2>1 DEF FollowsTo
  <2>3. g[i] = IF v[i].kind = "notified" THEN Append(g[i - 1], Entry(v, k, i)) ELSE g[i - 1]
    BY <2>1, <2>2, Zenon DEF Follows
  <2> QED
    BY <2>1, <2>2, <2>3, Zenon
<1>11. Entry(v, k, N + 1) = <<k[f.sub], f.slot>>
  BY <1>3 DEF Entry
<1> QED
  BY <1>2, <1>4, <1>5, <1>9, <1>10, <1>11, Zenon

(* A frame less.                                                            *)
LEMMA NotifiedLess ==
  ASSUME NEW F, NEW w \in Seq(F), w # << >>, NEW m, NEW R, Entries(w, m, R)
  PROVE  NotifiedIn(w, m)
           = Leading(w, m) \o NotifiedIn(Tail(w), m)
<1>1. PICK N \in Nat \ {0} : N = Len(w) /\ DOMAIN w = 1 .. N
  OBVIOUS
<1>2. PICK v : v = Tail(w)
  OBVIOUS
<1>3. Len(v) = N - 1 /\ N - 1 \in Nat /\ \A n \in 1 .. N - 1 : v[n] = w[n + 1]
  BY <1>1, <1>2
<1>4. PICK h : NotifiedIn(w, m) = h[N] /\ FollowsTo(h, w, m, N)
  BY <1>1, UpToExists
<1>5. PICK g : NotifiedIn(v, m) = g[N - 1] /\ FollowsTo(g, v, m, N - 1)
  BY <1>3, UpToExists
<1>6. ShowsTo(w, m, N, R)
  BY <1>1 DEF Entries, ShowsTo
<1>7. h[N] = Leading(w, m) \o g[N - 1]
  BY <1>3, <1>4, <1>5, <1>6, UpToTail DEF TailTo
<1> QED
  BY <1>2, <1>4, <1>5, <1>7, Zenon

(* Of a connection that breaks the first frames are left.                   *)
LEMMA NotifiedBroken ==
  ASSUME NEW F, NEW w \in Seq(F), NEW m, NEW R, Entries(w, m, R), NEW c \in 0 .. Len(w)
  PROVE  Begins(NotifiedIn(SubSeq(w, 1, c), m), NotifiedIn(w, m))
<1>1. PICK N \in Nat : N = Len(w) /\ DOMAIN w = 1 .. N
  OBVIOUS
<1>2. PICK v : v = SubSeq(w, 1, c)
  OBVIOUS
<1>3. Len(v) = c /\ c \in 0 .. N /\ c \in Nat /\ \A n \in 1 .. c : v[n] = w[n]
  BY <1>1, <1>2
<1>4. PICK h : NotifiedIn(w, m) = h[N] /\ FollowsTo(h, w, m, N)
  BY <1>1, UpToExists
<1>5. PICK g : NotifiedIn(v, m) = g[c] /\ FollowsTo(g, v, m, c)
  BY <1>3, UpToExists
<1>6. FollowsTo(h, w, m, c)
  BY <1>3, <1>4 DEF FollowsTo
<1>7. AgreeTo(w, m, v, m, c)
  BY <1>3 DEF AgreeTo, Agree, Entry
<1>9. h[c] = g[c]
  BY <1>3, <1>5, <1>6, <1>7, UpToAgrees
<1>10. Begins(h[c], h[N])
  <2>1. ShowsTo(w, m, N, R)
    BY <1>1 DEF Entries, ShowsTo
  <2> QED
    BY <1>3, <1>4, <2>1, UpToGrows
<1> QED
  BY <1>2, <1>4, <1>5, <1>9, <1>10

-----------------------------------------------------------------------------
(* The task knows whom a notification is about.                             *)

LEMMA FrameKinds ==
  ASSUME NEW f \in Frame
  PROVE  /\ f.kind \in {"confirmed", "notified", "refused", "ping"}
         /\ f.kind = "confirmed" => f.id \in Nat /\ f.sub \in SubId
         /\ f.kind = "notified" => f.sub \in SubId /\ f.slot \in Nat
BY DEF Frame

LEMMA NothingAttributed ==
  ASSUME NEW m, NEW got, \A s \in DOMAIN m : s \in SubId /\ m[s] \in Account,
         \A s \in DOMAIN got : s \in DOMAIN m /\ got[s] = m[s]
  PROVE  Attribution(<< >>, m, got)
<1>1. << >> \in Seq(Frame) /\ DOMAIN << >> = {}
  OBVIOUS
<1> QED
  BY <1>1 DEF Attribution

(* A frame more that is itself as it must be.                               *)
LEMMA AttributedMore ==
  ASSUME NEW w, NEW m, NEW k, NEW got, Attribution(w, m, got), NEW f \in Frame,
         \A s \in DOMAIN m : s \in DOMAIN k /\ k[s] = m[s],
         \A s \in DOMAIN k : s \in SubId /\ k[s] \in Account,
         f.kind = "confirmed" => f.id \in DOMAIN Accounts /\ f.sub \in DOMAIN k /\ k[f.sub] = Accounts[f.id],
         f.kind = "notified" =>
           /\ f.sub \in DOMAIN k
           /\ f.sub \in DOMAIN got
                \/ \E j \in DOMAIN w : Confirms(w[j], f.sub)
  PROVE  Attribution(Append(w, f), k, got)
<1>1. PICK N \in Nat : N = Len(w) /\ DOMAIN w = 1 .. N
  BY DEF Attribution
<1>2. PICK v : v = Append(w, f)
  OBVIOUS
<1>3. v \in Seq(Frame) /\ DOMAIN v = 1 .. N + 1 /\ v[N + 1] = f /\ \A n \in 1 .. N : v[n] = w[n]
  <2>1. w \in Seq(Frame)
    BY DEF Attribution
  <2>2. v \in Seq(Frame) /\ Len(v) = N + 1
    BY <1>1, <1>2, <2>1
  <2>3. v[N + 1] = f /\ \A n \in 1 .. N : v[n] = w[n]
    BY <1>1, <1>2, <2>1
  <2> QED
    BY <2>2, <2>3
<1>4. ASSUME NEW i \in 1 .. N PROVE Told(v, k, got, i)
  <2>1. Told(w, m, got, i)
    BY <1>1 DEF Attribution
  <2>2. v[i] = w[i] /\ \A j \in 1 .. i - 1 : v[j] = w[j]
    BY <1>3
  <2> QED
    BY <2>1, <2>2 DEF Told
<1>5. Told(v, k, got, N + 1)
  <2>1. v[N + 1] = f /\ (N + 1) - 1 = N
    BY <1>3
  <2>2. \A j \in 1 .. N : v[j] = w[j]
    BY <1>3
  <2> QED
    BY <1>1, <2>1, <2>2 DEF Told
<1>6. \A i \in DOMAIN v : Told(v, k, got, i)
  <2>1. \A i \in 1 .. N + 1 : i \in 1 .. N \/ i = N + 1
    OBVIOUS
  <2> QED
    BY <1>3, <1>4, <1>5, <2>1
<1>7. \A s \in DOMAIN got : s \in DOMAIN k /\ got[s] = k[s]
  BY DEF Attribution
<1> QED
  BY <1>2, <1>3, <1>6, <1>7 DEF Attribution

(* A frame less, of which the task has taken note if it confirms.           *)
LEMMA AttributedLess ==
  ASSUME NEW w, NEW m, NEW got, NEW have, Attribution(w, m, got), w # << >>,
         \A s \in DOMAIN got : s \in DOMAIN have,
         \A s \in DOMAIN have : s \in DOMAIN m /\ have[s] = m[s],
         w[1].kind = "confirmed" => w[1].sub \in DOMAIN have
  PROVE  Attribution(Tail(w), m, have)
<1>1. PICK N \in Nat \ {0} : N = Len(w) /\ DOMAIN w = 1 .. N
  BY DEF Attribution
<1>2. PICK v : v = Tail(w)
  OBVIOUS
<1>3. v \in Seq(Frame) /\ DOMAIN v = 1 .. N - 1 /\ \A n \in 1 .. N - 1 : v[n] = w[n + 1]
  <2>1. w \in Seq(Frame)
    BY DEF Attribution
  <2>2. v \in Seq(Frame) /\ Len(v) = N - 1
    BY <1>1, <1>2, <2>1
  <2>3. \A n \in 1 .. N - 1 : v[n] = w[n + 1]
    BY <1>1, <1>2, <2>1
  <2> QED
    BY <2>2, <2>3
<1>4. ASSUME NEW i \in 1 .. N - 1 PROVE Told(v, m, have, i)
  <2>1. PICK n \in 1 .. N : n = i + 1 /\ v[i] = w[n]
    BY <1>3
  <2>2. Told(w, m, got, n)
    BY <1>1 DEF Attribution
  <2>3. ASSUME NEW j \in 1 .. n - 1, Confirms(w[j], w[n].sub)
        PROVE  w[n].sub \in DOMAIN have \/ \E l \in 1 .. i - 1 : Confirms(v[l], w[n].sub)
    <3>1. CASE j = 1
      BY <2>3, <3>1 DEF Confirms
    <3>2. CASE j # 1
      <4>1. PICK l \in 1 .. i - 1 : l = j - 1 /\ l + 1 = j
        BY <2>1, <3>2
      <4>2. v[l] = w[j]
        BY <1>3, <4>1
      <4> QED
        BY <2>3, <4>1, <4>2
    <3> QED
      BY <3>1, <3>2
  <2> QED
    BY <2>1, <2>2, <2>3 DEF Told
<1> QED
  BY <1>2, <1>3, <1>4 DEF Attribution

(* The first frames of a wire are as they were.                             *)
LEMMA AttributedPart ==
  ASSUME NEW w, NEW m, NEW got, Attribution(w, m, got), NEW c \in 0 .. Len(w)
  PROVE  Attribution(SubSeq(w, 1, c), m, got)
<1>1. w \in Seq(Frame)
  BY DEF Attribution
<1>2. PICK N \in Nat : N = Len(w) /\ DOMAIN w = 1 .. N
  BY <1>1
<1>3. PICK v : v = SubSeq(w, 1, c)
  OBVIOUS
<1>4. v \in Seq(Frame) /\ DOMAIN v = 1 .. c /\ c \in 0 .. N /\ \A n \in 1 .. c : v[n] = w[n]
  BY <1>1, <1>2, <1>3
<1>5. ASSUME NEW i \in 1 .. c PROVE Told(v, m, got, i)
  <2>1. i \in 1 .. N /\ Told(w, m, got, i)
    BY <1>2, <1>4 DEF Attribution
  <2>2. v[i] = w[i] /\ \A j \in 1 .. i - 1 : v[j] = w[j]
    BY <1>4
  <2> QED
    BY <2>1, <2>2 DEF Told
<1> QED
  BY <1>3, <1>4, <1>5 DEF Attribution

LEMMA AttributedAtFirst == Init => Attributed
<1> SUFFICES ASSUME Init PROVE Attributed
  OBVIOUS
<1>1. Attribution(wire, subs, subToPubkey)
  <2>1. wire = << >> /\ subs = << >> /\ subToPubkey = << >> /\ DOMAIN << >> = {}
    BY DEF Init
  <2> QED
    BY <2>1, NothingAttributed
<1>2. Len(Accounts) \in Nat
  BY StreamAssumption
<1>3. slot \in Nat /\ Asked /\ pc # "send" /\ ~connected
  BY <1>2 DEF Init, Asked
<1> QED
  BY <1>1, <1>3 DEF Attributed

(* Nothing is on its way from a connection that is left.                    *)
LEMMA AttributedLeft ==
  ASSUME Attributed, wire' = << >>, subs' = subs, subToPubkey' = subToPubkey
  PROVE  Attribution(wire', subs', subToPubkey')
<1>1. Attribution(wire, subs, subToPubkey)
  BY DEF Attributed
<1>2. Attribution(<< >>, subs, subToPubkey)
  BY <1>1, NothingAttributed DEF Attribution
<1> QED
  BY <1>2

LEMMA HeardMore ==
  ASSUME NEW w \in Seq(Frame), NEW m, NEW k, NEW got, Heard(w, m, got), NEW f \in Frame,
         \A s \in DOMAIN k : s \in DOMAIN m \/ Confirms(f, s)
  PROVE  Heard(Append(w, f), k, got)
<1>1. PICK N \in Nat : N = Len(w) /\ DOMAIN w = 1 .. N
  OBVIOUS
<1>2. PICK v : v = Append(w, f)
  OBVIOUS
<1>3. DOMAIN v = 1 .. N + 1 /\ v[N + 1] = f /\ N + 1 \in DOMAIN v
  BY <1>1, <1>2
<1>4. \A n \in DOMAIN w : n \in DOMAIN v /\ v[n] = w[n]
  BY <1>1, <1>2
<1>5. Heard(v, k, got)
  BY <1>3, <1>4 DEF Heard
<1> QED
  BY <1>2, <1>5

LEMMA HeardLess ==
  ASSUME NEW w \in Seq(Frame), w # << >>, NEW m, NEW got, NEW have, Heard(w, m, got),
         \A s \in DOMAIN got : s \in DOMAIN have,
         w[1].kind = "confirmed" => w[1].sub \in DOMAIN have
  PROVE  Heard(Tail(w), m, have)
<1>1. PICK N \in Nat \ {0} : N = Len(w) /\ DOMAIN w = 1 .. N
  OBVIOUS
<1>2. PICK v : v = Tail(w)
  OBVIOUS
<1>3. DOMAIN v = 1 .. N - 1 /\ \A n \in 1 .. N - 1 : v[n] = w[n + 1]
  BY <1>1, <1>2
<1>4. ASSUME NEW s \in DOMAIN m, s \notin DOMAIN have
      PROVE  \E j \in DOMAIN v : Confirms(v[j], s)
  <2>1. PICK j \in 1 .. N : Confirms(w[j], s)
    BY <1>1, <1>4 DEF Heard
  <2>2. j # 1
    BY <1>4, <2>1 DEF Confirms
  <2>3. PICK l \in 1 .. N - 1 : l + 1 = j
    <3>1. j - 1 \in 1 .. N - 1 /\ (j - 1) + 1 = j
      BY <2>2
    <3> QED
      BY <3>1
  <2> QED
    BY <1>3, <2>1, <2>3
<1> QED
  BY <1>2, <1>4 DEF Heard

LEMMA AttributedHandle ==
  ASSUME Attributed, HandleMessage
  PROVE  /\ Attribution(wire', subs', subToPubkey')
         /\ connected' => Heard(wire', subs', subToPubkey')
         /\ pc' = "send" => update' \in Account \X Nat
<1>1. Attribution(wire, subs, subToPubkey)
  BY DEF Attributed
<1>2. PICK f : f = wire[1]
  OBVIOUS
<1>3. wire \in Seq(Frame) /\ wire # << >>
  BY <1>1 DEF Attribution, HandleMessage
<1>4. f \in Frame /\ Head(wire) = f /\ 1 \in DOMAIN wire
  BY <1>2, <1>3
<1>5. Told(wire, subs, subToPubkey, 1)
  BY <1>1, <1>4 DEF Attribution
<1>6. /\ f.kind = "confirmed" => f.sub \in DOMAIN subs /\ subs[f.sub] = Accounts[f.id]
      /\ f.kind = "notified" => f.sub \in DOMAIN subs
  BY <1>2, <1>5 DEF Told
<1>7. wire' = Tail(wire) /\ subs' = subs
  BY DEF HandleMessage
<1>8. CASE f.kind = "confirmed"
  <2>1. pc' = pc /\ update' = update /\ subToPubkey' = Confirmed(f)
    BY <1>4, <1>8 DEF HandleMessage
  <2>2. PICK have : have = Confirmed(f)
    OBVIOUS
  <2>3. /\ DOMAIN have = {f.sub} \cup DOMAIN subToPubkey
        /\ \A s \in DOMAIN have : have[s] = IF s = f.sub THEN Accounts[f.id] ELSE subToPubkey[s]
    BY <2>2 DEF Confirmed, Insert
  <2>4. \A s \in DOMAIN have : s \in DOMAIN subs /\ have[s] = subs[s]
    BY <1>1, <1>6, <1>8, <2>3 DEF Attribution
  <2>5. Attribution(Tail(wire), subs, have)
    BY <1>1, <1>2, <1>3, <2>3, <2>4, AttributedLess
  <2>7. Heard(wire, subs, subToPubkey) => Heard(Tail(wire), subs, have)
    BY <1>2, <1>3, <2>3, HeardLess
  <2>8. connected' => Heard(wire, subs, subToPubkey)
    BY DEF Attributed, HandleMessage
  <2>6. pc # "send"
    BY DEF HandleMessage
  <2> QED
    BY <1>7, <2>1, <2>2, <2>5, <2>6, <2>7, <2>8
<1>9. CASE f.kind # "confirmed"
  <2>1. subToPubkey' = subToPubkey
    BY <1>4, <1>9 DEF HandleMessage
  <2>2. \A s \in DOMAIN subToPubkey : s \in DOMAIN subs /\ subToPubkey[s] = subs[s]
    BY <1>1 DEF Attribution
  <2>3. Attribution(Tail(wire), subs, subToPubkey)
    BY <1>1, <1>2, <1>3, <1>9, <2>2, AttributedLess
  <2>7. Heard(wire, subs, subToPubkey) => Heard(Tail(wire), subs, subToPubkey)
    BY <1>2, <1>3, <1>9, HeardLess
  <2>8. connected' => Heard(wire, subs, subToPubkey)
    BY DEF Attributed, HandleMessage
  <2>4. ASSUME f.kind = "notified", f.sub \in DOMAIN subToPubkey
        PROVE  update' \in Account \X Nat
    <3>1. update' = <<subToPubkey[f.sub], f.slot>>
      BY <1>4, <2>4 DEF HandleMessage
    <3>2. subToPubkey[f.sub] \in Account
      BY <1>1, <2>2, <2>4 DEF Attribution
    <3>3. f.slot \in Nat
      BY <1>4, <2>4, FrameKinds
    <3> QED
      BY <3>1, <3>2, <3>3
  <2>5. ASSUME ~(f.kind = "notified" /\ f.sub \in DOMAIN subToPubkey) PROVE pc' # "send"
    BY <1>4, <1>9, <2>5 DEF HandleMessage
  <2> QED
    BY <1>7, <2>1, <2>3, <2>4, <2>5, <2>7, <2>8
<1> QED
  BY <1>8, <1>9

LEMMA AttributedConfirm ==
  ASSUME Attributed, NEW i \in requests, Confirm(i)
  PROVE  /\ Attribution(wire', subs', subToPubkey')
         /\ connected' => Heard(wire', subs', subToPubkey')
<1>1. Attribution(wire, subs, subToPubkey) /\ Asked
  BY DEF Attributed
<1>2. PICK s \in SubId \ DOMAIN subs :
        /\ subs' = Insert(subs, s, Accounts[i])
        /\ wire' = Append(wire, [kind |-> "confirmed", id |-> i, sub |-> s])
  BY DEF Confirm
<1>3. PICK k : k = Insert(subs, s, Accounts[i])
  OBVIOUS
<1>4. /\ DOMAIN k = {s} \cup DOMAIN subs
      /\ \A x \in DOMAIN k : k[x] = IF x = s THEN Accounts[i] ELSE subs[x]
  BY <1>3 DEF Insert
<1>5. i \in Nat /\ i \in DOMAIN Accounts /\ Accounts[i] \in Account
  <2>1. Accounts \in Seq(Account)
    BY StreamAssumption
  <2>2. i \in 1 .. Len(Accounts)
    BY <1>1, <2>1 DEF Asked
  <2> QED
    BY <2>1, <2>2
<1>6. PICK f : f = [kind |-> "confirmed", id |-> i, sub |-> s]
  OBVIOUS
<1>7. f \in Frame /\ f.kind = "confirmed" /\ f.id = i /\ f.sub = s
  BY <1>5, <1>6 DEF Frame
<1>8. /\ \A x \in DOMAIN subs : x \in DOMAIN k /\ k[x] = subs[x]
      /\ \A x \in DOMAIN k : x \in SubId /\ k[x] \in Account
  BY <1>1, <1>4, <1>5 DEF Attribution
<1>9. Attribution(Append(wire, f), k, subToPubkey)
  <2>1. f.kind # "notified" /\ s \in DOMAIN k /\ k[s] = Accounts[i]
    BY <1>4, <1>7
  <2> QED
    BY <1>1, <1>5, <1>7, <1>8, <2>1, AttributedMore
<1>10. connected' => Heard(wire, subs, subToPubkey)
  BY DEF Attributed, Confirm
<1>11. Heard(wire, subs, subToPubkey) => Heard(Append(wire, f), k, subToPubkey)
  <2>1. \A x \in DOMAIN k : x \in DOMAIN subs \/ Confirms(f, x)
    BY <1>4, <1>7 DEF Confirms
  <2>2. wire \in Seq(Frame)
    BY <1>1 DEF Attribution
  <2> QED
    BY <1>7, <2>1, <2>2, HeardMore
<1> QED
  BY <1>2, <1>3, <1>6, <1>9, <1>10, <1>11 DEF Confirm, taskVars

LEMMA AttributedRefuse ==
  ASSUME Attributed, NEW i \in requests, Refuse(i)
  PROVE  /\ Attribution(wire', subs', subToPubkey')
         /\ connected' => Heard(wire', subs', subToPubkey')
<1>1. Attribution(wire, subs, subToPubkey) /\ Asked
  BY DEF Attributed
<1>2. PICK f : f = [kind |-> "refused", id |-> i]
  OBVIOUS
<1>3. i \in Nat
  BY <1>1, StreamAssumption DEF Asked
<1>4. f \in Frame /\ f.kind = "refused"
  BY <1>2, <1>3 DEF Frame
<1>5. Attribution(Append(wire, f), subs, subToPubkey)
  <2>1. /\ \A x \in DOMAIN subs : x \in DOMAIN subs /\ subs[x] = subs[x]
        /\ \A x \in DOMAIN subs : x \in SubId /\ subs[x] \in Account
    BY <1>1 DEF Attribution
  <2>2. f.kind # "confirmed" /\ f.kind # "notified"
    BY <1>4
  <2> QED
    BY <1>1, <1>4, <2>1, <2>2, AttributedMore
<1>6. connected' => Heard(wire, subs, subToPubkey)
  BY DEF Attributed, Refuse
<1>7. Heard(wire, subs, subToPubkey) => Heard(Append(wire, f), subs, subToPubkey)
  <2>1. wire \in Seq(Frame)
    BY <1>1 DEF Attribution
  <2> QED
    BY <1>4, <2>1, HeardMore
<1> QED
  BY <1>2, <1>5, <1>6, <1>7 DEF Refuse, taskVars

(* A ping says nothing of an account.                                       *)
LEMMA AttributedPing ==
  ASSUME Attributed, Ping
  PROVE  /\ Attribution(wire', subs', subToPubkey')
         /\ connected' => Heard(wire', subs', subToPubkey')
<1>1. Attribution(wire, subs, subToPubkey)
  BY DEF Attributed
<1>2. PICK f : f = [kind |-> "ping"]
  OBVIOUS
<1>3. f \in Frame /\ f.kind = "ping"
  BY <1>2 DEF Frame
<1>4. Attribution(Append(wire, f), subs, subToPubkey)
  <2>1. /\ \A x \in DOMAIN subs : x \in DOMAIN subs /\ subs[x] = subs[x]
        /\ \A x \in DOMAIN subs : x \in SubId /\ subs[x] \in Account
    BY <1>1 DEF Attribution
  <2>2. f.kind # "confirmed" /\ f.kind # "notified"
    BY <1>3
  <2> QED
    BY <1>1, <1>3, <2>1, <2>2, AttributedMore
<1>5. connected' => Heard(wire, subs, subToPubkey)
  BY DEF Attributed, Ping
<1>6. Heard(wire, subs, subToPubkey) => Heard(Append(wire, f), subs, subToPubkey)
  <2>1. wire \in Seq(Frame)
    BY <1>1 DEF Attribution
  <2> QED
    BY <1>3, <2>1, HeardMore
<1> QED
  BY <1>2, <1>4, <1>5, <1>6 DEF Ping, taskVars

(* An account that changes, and the frame that tells of it.                 *)
Notification(a) ==
  [kind |-> "notified", sub |-> CHOOSE x \in {x \in DOMAIN subs : subs[x] = a} : TRUE, slot |-> slot']

LEMMA ChangeTells ==
  ASSUME NEW a, Change(a)
  PROVE  \/ wire' = wire
         \/ /\ wire' = Append(wire, Notification(a))
            /\ connected
            /\ Notification(a).kind = "notified" /\ Notification(a).slot = slot + 1
            /\ Notification(a).sub \in DOMAIN subs /\ subs[Notification(a).sub] = a
<1>1. PICK s : s = {x \in DOMAIN subs : subs[x] = a}
  OBVIOUS
<1>2. Notification(a) = [kind |-> "notified", sub |-> CHOOSE x \in s : TRUE, slot |-> slot']
  BY <1>1 DEF Notification
<1>3. wire' = IF connected /\ s # {} THEN Append(wire, Notification(a)) ELSE wire
  BY <1>1, <1>2 DEF Change
<1>4. slot' = slot + 1
  BY DEF Change
<1>5. s # {} => (CHOOSE x \in s : TRUE) \in s
  OBVIOUS
<1> QED
  BY <1>1, <1>2, <1>3, <1>4, <1>5

(* A confirmation of a subscription in force precedes its notifications: it *)
(* is on its way, or the task has it already.                               *)
LEMMA AttributedChange ==
  ASSUME Attributed, NEW a \in Account, Change(a)
  PROVE  /\ Attribution(wire', subs', subToPubkey')
         /\ connected' => Heard(wire', subs', subToPubkey')
<1>1. Attribution(wire, subs, subToPubkey) /\ slot \in Nat
  BY DEF Attributed
<1>2. subs' = subs /\ subToPubkey' = subToPubkey /\ connected' = connected
  BY DEF Change, taskVars
<1>3. connected => Heard(wire, subs, subToPubkey)
  BY DEF Attributed
<1>4. CASE wire' = wire
  BY <1>1, <1>2, <1>3, <1>4
<1>5. CASE wire' # wire
  <2>1. PICK f : f = Notification(a)
    OBVIOUS
  <2>2. /\ wire' = Append(wire, f) /\ connected
        /\ f.kind = "notified" /\ f.slot = slot + 1 /\ f.sub \in DOMAIN subs /\ subs[f.sub] = a
    BY <1>5, <2>1, ChangeTells
  <2>3. f \in Frame
    <3>1. PICK s, n : f = [kind |-> "notified", sub |-> s, slot |-> n]
      BY <2>1 DEF Notification
    <3>2. s = f.sub /\ n = f.slot
      BY <3>1
    <3>3. s \in SubId /\ n \in Nat
      BY <1>1, <2>2, <3>2 DEF Attribution
    <3> QED
      BY <3>1, <3>3 DEF Frame
  <2>4. wire \in Seq(Frame)
    BY <1>1 DEF Attribution
  <2>5. f.sub \in DOMAIN subToPubkey \/ \E j \in DOMAIN wire : Confirms(wire[j], f.sub)
    BY <1>3, <2>2 DEF Heard
  <2>6. /\ \A x \in DOMAIN subs : x \in DOMAIN subs /\ subs[x] = subs[x]
        /\ \A x \in DOMAIN subs : x \in SubId /\ subs[x] \in Account
    BY <1>1 DEF Attribution
  <2>7. Attribution(Append(wire, f), subs, subToPubkey)
    <3>1. f.kind # "confirmed"
      BY <2>2
    <3> QED
      BY <1>1, <2>2, <2>3, <2>5, <2>6, <3>1, AttributedMore
  <2>8. Heard(Append(wire, f), subs, subToPubkey)
    BY <1>3, <2>2, <2>3, <2>4, HeardMore
  <2> QED
    BY <1>2, <2>2, <2>7, <2>8
<1> QED
  BY <1>4, <1>5

LEMMA AttributedStep == Attributed /\ [Next]_vars => Attributed'
<1> SUFFICES ASSUME Attributed, [Next]_vars PROVE Attributed'
  OBVIOUS
<1>1. ASSUME slot' = slot, sent' = sent, requests' = requests, wire' = wire, subs' = subs,
             subToPubkey' = subToPubkey, connected' = connected,
             pc' = "send" => pc = "send" /\ update' = update
      PROVE  Attributed'
  BY <1>1 DEF Attributed, Asked
<1>2. ASSUME Leave, slot' = slot PROVE Attributed'
  <2>1. Attribution(wire', subs', subToPubkey')
    BY <1>2, AttributedLeft DEF Leave, Stays
  <2>2. Asked' /\ ~connected' /\ pc' # "send" /\ slot' \in Nat
    BY <1>2 DEF Leave, Stays, Attributed, Asked
  <2> QED
    BY <2>1, <2>2 DEF Attributed
<1>3. CASE Loop
  BY <1>1, <1>3 DEF Loop, Stays, peerVars
<1>4. CASE Connect
  <2>1. wire' = << >> /\ subs' = << >> /\ subToPubkey' = << >> /\ DOMAIN << >> = {}
    BY <1>4 DEF Connect
  <2>2. Attribution(wire', subs', subToPubkey') /\ Heard(wire', subs', subToPubkey')
    BY <2>1, NothingAttributed DEF Heard
  <2>3. Len(Accounts) \in Nat
    BY StreamAssumption
  <2>4. slot' \in Nat /\ Asked' /\ pc' # "send"
    BY <1>4, <2>3 DEF Connect, Asked, Attributed
  <2> QED
    BY <2>2, <2>4 DEF Attributed
<1>5. CASE ConnectFails
  BY <1>1, <1>5 DEF ConnectFails, Stays, peerVars
<1>6. CASE Subscribe
  <2>1. CASE Leave
    BY <1>2, <1>6, <2>1 DEF Subscribe
  <2>2. CASE Stays("read") /\ UNCHANGED peerVars
    BY <1>1, <1>6, <2>2 DEF Subscribe, Stays, peerVars
  <2>3. CASE /\ sent < Len(Accounts)
             /\ sent' = sent + 1
             /\ requests' = IF connected THEN requests \cup {sent + 1} ELSE {}
             /\ UNCHANGED <<pc, backoff, subToPubkey, update, connected, subs, refused, wire>>
    <3>1. Asked'
      <4>1. Len(Accounts) \in Nat
        BY StreamAssumption
      <4> QED
        BY <2>3, <4>1 DEF Asked, Attributed
    <3>2. slot' = slot
      BY <1>6 DEF Subscribe
    <3> QED
      BY <2>3, <3>1, <3>2 DEF Attributed
  <2> QED
    BY <1>6, <2>1, <2>2, <2>3 DEF Subscribe
<1>7. CASE HandleMessage
  <2>1. slot' \in Nat /\ Asked'
    BY <1>7 DEF HandleMessage, Attributed, Asked
  <2> QED
    BY <1>7, <2>1, AttributedHandle DEF Attributed
<1>8. CASE StopReading
  BY <1>1, <1>8 DEF StopReading, Stays, peerVars
<1>9. CASE Send
  BY <1>1, <1>9 DEF Send, peerVars
<1>10. CASE SendFails
  <2>1. Attribution(wire', subs', subToPubkey')
    BY <1>10, AttributedLeft DEF SendFails
  <2>2. Asked' /\ ~connected' /\ pc' # "send" /\ slot' \in Nat
    BY <1>10 DEF SendFails, Attributed, Asked
  <2> QED
    BY <2>1, <2>2 DEF Attributed
<1>11. CASE Wait
  BY <1>1, <1>11 DEF Wait, Stays, peerVars
<1>12. ASSUME NEW i \in requests, Confirm(i) PROVE Attributed'
  <2>1. slot' \in Nat /\ Asked' /\ pc' = pc /\ update' = update
    BY <1>12 DEF Confirm, Attributed, Asked, taskVars
  <2> QED
    BY <1>12, <2>1, AttributedConfirm DEF Attributed
<1>13. ASSUME NEW i \in requests, Refuse(i) PROVE Attributed'
  <2>1. slot' \in Nat /\ Asked' /\ pc' = pc /\ update' = update
    BY <1>13 DEF Refuse, Attributed, Asked, taskVars
  <2> QED
    BY <1>13, <2>1, AttributedRefuse DEF Attributed
<1>14. ASSUME NEW a \in Account, Change(a) PROVE Attributed'
  <2>1. slot' \in Nat /\ Asked' /\ pc' = pc /\ update' = update
    BY <1>14 DEF Change, Attributed, Asked, taskVars
  <2> QED
    BY <1>14, <2>1, AttributedChange DEF Attributed
<1>15. CASE Breaks
  <2>1. PICK n \in 0 .. Len(wire) : wire' = SubSeq(wire, 1, n)
    BY <1>15 DEF Breaks
  <2>2. Attribution(SubSeq(wire, 1, n), subs, subToPubkey)
    BY AttributedPart DEF Attributed
  <2>3. /\ slot' \in Nat /\ Asked' /\ pc' = pc /\ update' = update /\ ~connected'
        /\ subs' = subs /\ subToPubkey' = subToPubkey
    BY <1>15 DEF Breaks, Attributed, Asked, taskVars
  <2> QED
    BY <2>1, <2>2, <2>3 DEF Attributed
<1>16. CASE Receive
  BY <1>1, <1>16 DEF Receive, taskVars, peerVars
<1>17. CASE DropReceiver
  BY <1>1, <1>17 DEF DropReceiver, taskVars, peerVars
<1>18. CASE Cancel
  BY <1>1, <1>18 DEF Cancel, taskVars, peerVars
<1>19. CASE UNCHANGED vars
  BY <1>1, <1>19 DEF vars, taskVars, peerVars
<1>20. CASE Pong
  BY <1>1, <1>20 DEF Pong, Stays, peerVars
<1>21. CASE ConnectionEnds
  BY <1>2, <1>21 DEF ConnectionEnds
<1>22. CASE Close
  BY <1>2, <1>22 DEF Close
<1>23. CASE GoesDead
  BY <1>1, <1>23 DEF GoesDead, taskVars, peerVars
<1>24. CASE Recovers
  BY <1>1, <1>24 DEF Recovers, taskVars, peerVars
<1>25. CASE Ping
  <2>1. slot' \in Nat /\ Asked' /\ pc' = pc /\ update' = update
    BY <1>25 DEF Ping, Attributed, Asked, taskVars
  <2> QED
    BY <1>25, <2>1, AttributedPing DEF Attributed
<1> QED
  BY <1>3, <1>4, <1>5, <1>6, <1>7, <1>8, <1>9, <1>10, <1>11, <1>12, <1>13, <1>14, <1>15, <1>16,
     <1>17, <1>18, <1>19, <1>20, <1>21, <1>22, <1>23, <1>24, <1>25 DEF Next, Task

-----------------------------------------------------------------------------
(* Every step of the stream is one of the feed, or leaves it as it is.      *)

LEMMA EveryEntryIsSound ==
  ASSUME Attributed
  PROVE  Entries(wire, subs, Account \X Nat)
<1> SUFFICES ASSUME NEW i \in DOMAIN wire, wire[i].kind = "notified"
             PROVE  Entry(wire, subs, i) \in Account \X Nat
  BY DEF Entries, Shows
<1>1. wire[i] \in Frame
  BY DEF Attributed, Attribution
<1>2. wire[i].sub \in DOMAIN subs /\ subs[wire[i].sub] \in Account
  BY DEF Attributed, Attribution, Told
<1>3. wire[i].slot \in Nat
  BY <1>1, FrameKinds
<1> QED
  BY <1>2, <1>3 DEF Entry

(* What is in the task's hands and what it has yet to read.                 *)
InHand == IF pc = "send" THEN <<update>> ELSE << >>

LEMMA DueType ==
  ASSUME Attributed
  PROVE  /\ InHand \in Seq(Account \X Nat) /\ Notified \in Seq(Account \X Nat)
         /\ Due = InHand \o Notified
<1>1. Notified \in Seq(Account \X Nat)
  BY EveryEntryIsSound, NotifiedType DEF Attributed, Attribution, Notified
<1>2. InHand \in Seq(Account \X Nat)
  <2>1. PICK R : R = Account \X Nat
    OBVIOUS
  <2>2. CASE pc = "send"
    <3>1. PICK u : u = update
      OBVIOUS
    <3>2. u \in R
      BY <2>1, <2>2, <3>1 DEF Attributed
    <3>3. <<u>> \in Seq(R)
      BY <3>2
    <3> QED
      BY <2>1, <2>2, <3>1, <3>3 DEF InHand
  <2>3. CASE pc # "send"
    BY <2>3 DEF InHand
  <2> QED
    BY <2>2, <2>3
<1> QED
  BY <1>1, <1>2 DEF Due, InHand

LEMMA StartOfConcat ==
  ASSUME NEW R, NEW p \in Seq(R), NEW s \in Seq(R), NEW t \in Seq(R), Begins(s, t)
  PROVE  Len(p \o s) \in 0 .. Len(p \o t) /\ p \o s = SubSeq(p \o t, 1, Len(p \o s))
<1>1. s = SubSeq(t, 1, Len(s)) /\ Len(s) <= Len(t)
  BY DEF Begins
<1>2. PICK v : v = SubSeq(p \o t, 1, Len(p \o s))
  OBVIOUS
<1>3. Len(p \o s) = Len(p) + Len(s) /\ Len(p \o t) = Len(p) + Len(t)
  OBVIOUS
<1>4. v \in Seq(R) /\ p \o s \in Seq(R) /\ Len(v) = Len(p \o s)
  BY <1>1, <1>2, <1>3
<1>5. ASSUME NEW i \in 1 .. Len(v) PROVE v[i] = (p \o s)[i]
  <2>1. v[i] = (p \o t)[i]
    BY <1>1, <1>2, <1>3, <1>4
  <2>2. CASE i <= Len(p)
    BY <1>3, <1>4, <2>1, <2>2
  <2>3. CASE i > Len(p)
    <3>1. (p \o t)[i] = t[i - Len(p)] /\ (p \o s)[i] = s[i - Len(p)]
      BY <1>1, <1>3, <1>4, <2>3
    <3>2. i - Len(p) \in 1 .. Len(s)
      BY <1>3, <1>4, <2>3
    <3>3. s[i - Len(p)] = t[i - Len(p)]
      BY <1>1, <3>2
    <3> QED
      BY <2>1, <3>1, <3>3
  <2>4. i <= Len(p) \/ i > Len(p)
    <3>1. i \in Int /\ Len(p) \in Int
      BY <1>5
    <3> QED
      BY <3>1
  <2> QED
    BY <2>2, <2>3, <2>4, Zenon
<1>6. v = p \o s
  BY <1>4, <1>5, SeqEqual
<1> QED
  BY <1>1, <1>2, <1>3, <1>6

LEMMA NotifiedLeft ==
  ASSUME wire' = << >>
  PROVE  Notified' = << >>
BY NotifiedOfNothing DEF Notified

(* Nothing is due of a connection that is left or not yet used.             *)
LEMMA LeavingBreaks ==
  ASSUME Attributed, wire' = << >>, pc' # "send", slot' = slot, fed' = fed
  PROVE  Promised!Next
<1>1. Due' = << >>
  <2>1. << >> \o << >> = << >>
    OBVIOUS
  <2> QED
    BY <2>1, NotifiedLeft DEF Due
<1>2. PICK d \in Seq(Account \X Nat) : d = Due
  <2>1. PICK p, n : p = InHand /\ n = Notified
    OBVIOUS
  <2>2. p \in Seq(Account \X Nat) /\ n \in Seq(Account \X Nat) /\ Due = p \o n
    BY <2>1, DueType
  <2>3. p \o n \in Seq(Account \X Nat)
    BY <2>2
  <2> QED
    BY <2>2, <2>3
<1>3. 0 \in 0 .. Len(d) /\ SubSeq(d, 1, 0) = << >>
  OBVIOUS
<1>4. Promised!Break
  BY <1>1, <1>2, <1>3 DEF Promised!Break
<1> QED
  BY <1>4 DEF Promised!Next

LEMMA HandlingKeeps ==
  ASSUME Attributed, HandleMessage
  PROVE  Due' = Due
<1>1. PICK f : f = wire[1]
  OBVIOUS
<1>2. wire \in Seq(Frame) /\ wire # << >> /\ pc = "read"
  BY DEF Attributed, Attribution, HandleMessage
<1>3. f \in Frame /\ Head(wire) = f /\ 1 \in DOMAIN wire
  BY <1>1, <1>2
<1>4. Told(wire, subs, subToPubkey, 1)
  BY <1>3 DEF Attributed, Attribution
<1>5. PICK N : N = NotifiedIn(Tail(wire), subs)
  OBVIOUS
<1>6. Notified' = N
  BY <1>5 DEF Notified, HandleMessage
<1>7. N \in Seq(Account \X Nat)
  <2>1. Tail(wire) \in Seq(Frame)
    BY <1>2
  <2>2. Entries(Tail(wire), subs, Account \X Nat)
    <3> SUFFICES ASSUME NEW i \in DOMAIN Tail(wire), Tail(wire)[i].kind = "notified"
                 PROVE  Entry(Tail(wire), subs, i) \in Account \X Nat
      BY DEF Entries, Shows
    <3>1. i + 1 \in DOMAIN wire /\ Tail(wire)[i] = wire[i + 1]
      BY <1>2
    <3>2. Entry(Tail(wire), subs, i) = Entry(wire, subs, i + 1)
      BY <3>1 DEF Entry
    <3> QED
      BY <3>1, <3>2, EveryEntryIsSound DEF Entries, Shows
  <2> QED
    BY <1>5, <2>1, <2>2, NotifiedType
<1>8. Notified = Leading(wire, subs) \o N
  BY <1>2, <1>5, EveryEntryIsSound, NotifiedLess DEF Notified
<1>9. Due = Leading(wire, subs) \o N
  <2>1. Due = << >> \o Notified /\ Notified \in Seq(Account \X Nat)
    BY <1>2, DueType DEF Due
  <2>2. << >> \o Notified = Notified
    BY <2>1
  <2> QED
    BY <1>8, <2>1, <2>2
<1>10. CASE f.kind = "notified"
  <2>1. f.sub \in DOMAIN subs /\ f.sub \in DOMAIN subToPubkey
    BY <1>1, <1>4, <1>10 DEF Told
  <2>2. subToPubkey[f.sub] = subs[f.sub]
    BY <2>1 DEF Attributed, Attribution
  <2>3. pc' = "send" /\ update' = <<subToPubkey[f.sub], f.slot>>
    BY <1>3, <1>10, <2>1 DEF HandleMessage
  <2>4. update' = Entry(wire, subs, 1)
    BY <1>1, <2>2, <2>3 DEF Entry
  <2>5. Leading(wire, subs) = <<update'>>
    BY <1>1, <1>10, <2>4 DEF Leading
  <2>6. Due' = <<update'>> \o Notified'
    BY <2>3 DEF Due
  <2> QED
    BY <1>6, <1>9, <2>5, <2>6
<1>11. CASE f.kind # "notified"
  <2>1. pc' # "send"
    BY <1>2, <1>3, <1>11 DEF HandleMessage
  <2>2. Leading(wire, subs) = << >>
    BY <1>1, <1>11 DEF Leading
  <2>3. Due' = << >> \o Notified'
    BY <1>2, <2>1 DEF Due
  <2> QED
    BY <1>6, <1>9, <2>2, <2>3
<1> QED
  BY <1>10, <1>11

(* An answer of the node is not a notification.                             *)
LEMMA AnswerKeeps ==
  ASSUME Attributed, NEW f \in Frame, f.kind # "notified", wire' = Append(wire, f),
         \A s \in DOMAIN subs : subs'[s] = subs[s], pc' = pc, update' = update
  PROVE  Due' = Due
<1>1. PICK k : k = subs'
  OBVIOUS
<1>2. wire \in Seq(Frame)
  BY DEF Attributed, Attribution
<1>3. \A i \in DOMAIN wire : wire[i].kind = "notified" => Entry(wire, subs, i) = Entry(wire, k, i)
  BY <1>1 DEF Attributed, Attribution, Told, Entry
<1>4. NotifiedIn(Append(wire, f), k) = NotifiedIn(wire, subs)
  BY <1>2, <1>3, NotifiedMore
<1>5. Notified' = Notified
  BY <1>1, <1>4 DEF Notified
<1> QED
  BY <1>5 DEF Due

(* A change is one of the account it is of, notified of last or not at all. *)
LEMMA ChangeChanges ==
  ASSUME Attributed, NEW a \in Account, Change(a)
  PROVE  Promised!Next
<1>1. slot' = slot + 1 /\ fed' = fed /\ subs' = subs /\ pc' = pc /\ update' = update
  BY DEF Change, taskVars
<1>2. CASE wire' = wire
  <2>1. Due' = Due
    BY <1>1, <1>2 DEF Due, Notified
  <2>2. Promised!Change(a)
    BY <1>1, <2>1 DEF Promised!Change
  <2> QED
    BY <2>2 DEF Promised!Next
<1>3. CASE wire' # wire
  <2>1. PICK f : f = Notification(a)
    OBVIOUS
  <2>2. /\ wire' = Append(wire, f)
        /\ f.kind = "notified" /\ f.slot = slot + 1 /\ f.sub \in DOMAIN subs /\ subs[f.sub] = a
    BY <1>3, <2>1, ChangeTells
  <2>3. wire' \in Seq(Frame) /\ wire \in Seq(Frame)
    <3>1. Attributed'
      BY AttributedStep DEF Next
    <3> QED
      BY <3>1 DEF Attributed, Attribution
  <2>4. f \in Frame
    <3>1. Len(wire) + 1 \in DOMAIN wire' /\ wire'[Len(wire) + 1] = f
      BY <2>2, <2>3
    <3> QED
      BY <2>3, <3>1
  <2>5. NotifiedIn(Append(wire, f), subs) = Append(NotifiedIn(wire, subs), <<a, slot + 1>>)
    BY <2>2, <2>3, <2>4, NotifiedMore
  <2>6. PICK p, n, x : p = InHand /\ n = Notified /\ x = <<a, slot + 1>>
    OBVIOUS
  <2>7. p \in Seq(Account \X Nat) /\ n \in Seq(Account \X Nat) /\ Due = p \o n
    BY <2>6, DueType
  <2>8. Due' = p \o Append(n, x)
    BY <1>1, <2>2, <2>5, <2>6 DEF Due, Notified, InHand
  <2>9. x \in Account \X Nat
    BY <2>6 DEF Attributed
  <2>10. p \o Append(n, x) = Append(p \o n, x)
    BY <2>7, <2>9
  <2>11. Due' = Append(Due, <<a, slot + 1>>)
    BY <2>6, <2>7, <2>8, <2>10
  <2>12. Promised!Change(a)
    BY <1>1, <2>11 DEF Promised!Change
  <2> QED
    BY <2>12 DEF Promised!Next
<1> QED
  BY <1>2, <1>3

LEMMA SendingFeeds ==
  ASSUME Attributed, Send
  PROVE  Promised!Next
<1>1. PICK u, n : u = update /\ n = Notified
  OBVIOUS
<1>2. pc = "send" /\ u \in Account \X Nat
  BY <1>1 DEF Send, Attributed
<1>3. n \in Seq(Account \X Nat)
  BY <1>1, DueType
<1>4. Due = <<u>> \o n
  BY <1>1, <1>2 DEF Due
<1>5. Notified' = n /\ pc' = "read" /\ fed' = Append(fed, u) /\ slot' = slot
  BY <1>1 DEF Send, peerVars, Notified
<1>6. Due' = << >> \o n
  BY <1>5 DEF Due
<1>7. << >> \o n = n
  BY <1>3
<1>8. <<u>> \o n # << >> /\ Head(<<u>> \o n) = u /\ Tail(<<u>> \o n) = n
  BY <1>2, <1>3
<1>9. Promised!Feed
  BY <1>4, <1>5, <1>6, <1>7, <1>8 DEF Promised!Feed
<1> QED
  BY <1>9 DEF Promised!Next

LEMMA BreakingBreaks ==
  ASSUME Attributed, Breaks
  PROVE  Promised!Next
<1>1. PICK n \in 0 .. Len(wire) : wire' = SubSeq(wire, 1, n)
  BY DEF Breaks
<1>2. subs' = subs /\ pc' = pc /\ update' = update /\ slot' = slot /\ fed' = fed
  BY DEF Breaks, taskVars
<1>3. PICK p, s, t : p = InHand /\ s = NotifiedIn(SubSeq(wire, 1, n), subs) /\ t = Notified
  OBVIOUS
<1>4. Begins(s, t)
  BY <1>3, EveryEntryIsSound, NotifiedBroken DEF Attributed, Attribution, Notified
<1>5. p \in Seq(Account \X Nat) /\ t \in Seq(Account \X Nat) /\ Due = p \o t
  BY <1>3, DueType
<1>6. s \in Seq(Account \X Nat)
  <2>1. PICK R, m : R = Account \X Nat /\ m = Len(s)
    OBVIOUS
  <2>2. m \in 0 .. Len(t) /\ s = SubSeq(t, 1, m) /\ t \in Seq(R)
    BY <1>4, <1>5, <2>1 DEF Begins
  <2>3. ASSUME NEW i \in 1 .. m PROVE t[i] \in R
    BY <2>2
  <2>4. SubSeq(t, 1, m) \in Seq(R)
    BY <2>2, <2>3
  <2> QED
    BY <2>1, <2>2, <2>4
<1>7. Due' = p \o s
  BY <1>1, <1>2, <1>3 DEF Due, Notified, InHand
<1>8. Len(p \o s) \in 0 .. Len(p \o t) /\ p \o s = SubSeq(p \o t, 1, Len(p \o s))
  BY <1>4, <1>5, <1>6, StartOfConcat
<1>9. Promised!Break
  BY <1>2, <1>5, <1>7, <1>8 DEF Promised!Break
<1> QED
  BY <1>9 DEF Promised!Next

LEMMA StreamFeeds == Attributed /\ [Next]_vars => [Promised!Next]_<<slot, Due, fed>>
<1> SUFFICES ASSUME Attributed, [Next]_vars
             PROVE  Promised!Next \/ UNCHANGED <<slot, Due, fed>>
  OBVIOUS
<1>1. ASSUME slot' = slot, fed' = fed, wire' = wire, subs' = subs,
             (pc' = pc /\ update' = update) \/ (pc # "send" /\ pc' # "send")
      PROVE  UNCHANGED <<slot, Due, fed>>
  BY <1>1 DEF Due, Notified
<1>2. ASSUME Leave, slot' = slot, fed' = fed PROVE Promised!Next
  BY <1>2, LeavingBreaks DEF Leave, Stays
<1>3. CASE Loop
  BY <1>1, <1>3 DEF Loop, Stays, peerVars
<1>4. CASE Connect
  BY <1>4, LeavingBreaks DEF Connect
<1>5. CASE ConnectFails
  BY <1>1, <1>5 DEF ConnectFails, Stays, peerVars
<1>6. CASE Subscribe
  <2>1. CASE Leave
    BY <1>2, <1>6, <2>1 DEF Subscribe
  <2>2. CASE ~Leave
    BY <1>1, <1>6, <2>2 DEF Subscribe, Stays, peerVars
  <2> QED
    BY <2>1, <2>2
<1>7. CASE HandleMessage
  BY <1>7, HandlingKeeps DEF HandleMessage
<1>8. CASE StopReading
  BY <1>1, <1>8 DEF StopReading, Stays, peerVars
<1>9. CASE Send
  BY <1>9, SendingFeeds
<1>10. CASE SendFails
  BY <1>10, LeavingBreaks DEF SendFails
<1>11. CASE Wait
  BY <1>1, <1>11 DEF Wait, Stays, peerVars
<1>12. ASSUME NEW i \in requests, Confirm(i) PROVE UNCHANGED <<slot, Due, fed>>
  <2>1. PICK s \in SubId \ DOMAIN subs :
          /\ subs' = Insert(subs, s, Accounts[i])
          /\ wire' = Append(wire, [kind |-> "confirmed", id |-> i, sub |-> s])
    BY <1>12 DEF Confirm
  <2>2. PICK f : f = [kind |-> "confirmed", id |-> i, sub |-> s]
    OBVIOUS
  <2>3. f \in Frame /\ f.kind # "notified"
    <3>1. i \in Nat
      BY StreamAssumption DEF Attributed, Asked
    <3> QED
      BY <2>2, <3>1 DEF Frame
  <2>4. \A x \in DOMAIN subs : subs'[x] = subs[x]
    BY <2>1 DEF Insert
  <2>5. pc' = pc /\ update' = update /\ slot' = slot /\ fed' = fed
    BY <1>12 DEF Confirm, taskVars
  <2> QED
    BY <2>1, <2>2, <2>3, <2>4, <2>5, AnswerKeeps
<1>13. ASSUME NEW i \in requests, Refuse(i) PROVE UNCHANGED <<slot, Due, fed>>
  <2>1. PICK f : f = [kind |-> "refused", id |-> i]
    OBVIOUS
  <2>2. f \in Frame /\ f.kind # "notified"
    <3>1. i \in Nat
      BY StreamAssumption DEF Attributed, Asked
    <3> QED
      BY <2>1, <3>1 DEF Frame
  <2>3. pc' = pc /\ update' = update /\ slot' = slot /\ fed' = fed /\ subs' = subs
    BY <1>13 DEF Refuse, taskVars
  <2>4. wire' = Append(wire, f)
    BY <1>13, <2>1 DEF Refuse
  <2> QED
    BY <2>2, <2>3, <2>4, AnswerKeeps
<1>14. ASSUME NEW a \in Account, Change(a) PROVE Promised!Next
  BY <1>14, ChangeChanges
<1>15. CASE Breaks
  BY <1>15, BreakingBreaks
<1>16. CASE Receive
  BY <1>1, <1>16 DEF Receive, taskVars, peerVars
<1>17. CASE DropReceiver
  BY <1>1, <1>17 DEF DropReceiver, taskVars, peerVars
<1>18. CASE Cancel
  BY <1>1, <1>18 DEF Cancel, taskVars, peerVars
<1>19. CASE UNCHANGED vars
  BY <1>1, <1>19 DEF vars, taskVars, peerVars
<1>20. CASE Pong
  BY <1>1, <1>20 DEF Pong, Stays, peerVars
<1>21. CASE ConnectionEnds
  BY <1>2, <1>21 DEF ConnectionEnds
<1>22. CASE Close
  BY <1>2, <1>22 DEF Close
<1>23. CASE GoesDead
  BY <1>1, <1>23 DEF GoesDead, taskVars, peerVars
<1>24. CASE Recovers
  BY <1>1, <1>24 DEF Recovers, taskVars, peerVars
<1>25. CASE Ping
  <2>1. PICK f : f = [kind |-> "ping"]
    OBVIOUS
  <2>2. f \in Frame /\ f.kind # "notified"
    BY <2>1 DEF Frame
  <2>3. pc' = pc /\ update' = update /\ slot' = slot /\ fed' = fed /\ subs' = subs
    BY <1>25 DEF Ping, taskVars
  <2>4. wire' = Append(wire, f)
    BY <1>25, <2>1 DEF Ping
  <2> QED
    BY <2>2, <2>3, <2>4, AnswerKeeps
<1> QED
  BY <1>3, <1>4, <1>5, <1>6, <1>7, <1>8, <1>9, <1>10, <1>11, <1>12, <1>13, <1>14, <1>15, <1>16,
     <1>17, <1>18, <1>19, <1>20, <1>21, <1>22, <1>23, <1>24, <1>25 DEF Next, Task

(* The consumer is fed what the node notified of, each change once, in the  *)
(* order of the slots and under the account it is of (ws.rs:77-143 and      *)
(* 145-206), whatever the node does with its subscription ids, for any      *)
(* accounts, any capacity and any number of faults.                         *)
THEOREM FeedIsKept == Spec => IsAccountFeed
<1>1. Init => Promised!Init
  <2> SUFFICES ASSUME Init PROVE Promised!Init
    OBVIOUS
  <2>1. slot = 0 /\ fed = << >> /\ pc # "send" /\ wire = << >>
    BY DEF Init
  <2>2. Notified = << >>
    BY <2>1, NotifiedOfNothing DEF Notified
  <2>3. << >> \o << >> = << >>
    OBVIOUS
  <2>4. Due = << >>
    BY <2>1, <2>2, <2>3 DEF Due
  <2> QED
    BY <2>1, <2>4 DEF Promised!Init
<1>2. Attributed /\ [Next]_vars => [Promised!Next]_<<slot, Due, fed>>
  BY StreamFeeds
<1> QED
  BY <1>1, <1>2, AttributedAtFirst, AttributedStep, PTL DEF Spec, IsAccountFeed, Promised!Spec
=============================================================================
