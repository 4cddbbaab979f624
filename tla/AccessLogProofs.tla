---------------------------- MODULE AccessLogProofs ----------------------------
(***************************************************************************)
(* For any sizes of batch and queue: entries are stored in order and none  *)
(* twice, and a notice that is due is always scheduled.                    *)
(*                                                                         *)
(* What was inserted, the batch and the queue are one ascending sequence   *)
(* cut in three (InOrder).  The entry that a probe tries is not behind the *)
(* head of the queue: while it is tried nothing else flushes, because the  *)
(* tables are taken for missing and the minute since the check is running  *)
(* (ProbeAlone).                                                           *)
(***************************************************************************)
EXTENDS AccessLogProps, SequenceTheorems, TLAPS

Ascending(s) == \A i, j \in 1..Len(s) : i < j => s[i] < s[j]
Before(s, t) == \A i \in 1..Len(s), j \in 1..Len(t) : s[i] < t[j]
UpTo(s, n) == \A i \in 1..Len(s) : s[i] <= n

InOrder ==
  /\ Ascending(inserted) /\ Ascending(batch) /\ Ascending(queue)
  /\ Before(inserted, batch) /\ Before(inserted, queue) /\ Before(batch, queue)
  /\ UpTo(inserted, offered) /\ UpTo(batch, offered) /\ UpTo(queue, offered)

BatchOfFlush == flushing <=> batch # <<>>

ProbeAlone ==
  probing # 0 =>
    /\ missing /\ checked /\ ~flushing
    /\ queue # <<>> /\ probing <= Head(queue)
    /\ \A i \in 1..Len(inserted) : inserted[i] < probing

AccessInv ==
  /\ TypeOK
  /\ fresh <= BatchSize - Len(batch)
  /\ InOrder
  /\ BatchOfFlush
  /\ ProbeAlone
  /\ LastNoticeFollows

USE AccessLimits

-----------------------------------------------------------------------------
(* Pieces of an ascending sequence *)

Piece(s, t) ==   \* t is a stretch of s
  \E a \in Nat : \A i \in 1..Len(t) : a + i \in 1..Len(s) /\ t[i] = s[a + i]

LEMMA PieceKeeps ==
  ASSUME NEW s \in Seq(Entry), NEW t \in Seq(Entry), Piece(s, t)
  PROVE  /\ Ascending(s) => Ascending(t)
         /\ \A u \in Seq(Entry) : (Before(u, s) => Before(u, t)) /\ (Before(s, u) => Before(t, u))
         /\ \A n \in Nat : UpTo(s, n) => UpTo(t, n)
<1>1. PICK a \in Nat : \A i \in 1..Len(t) : a + i \in 1..Len(s) /\ t[i] = s[a + i]
  BY DEF Piece
<1>2. Ascending(s) => Ascending(t)
  BY <1>1 DEF Ascending
<1>3. ASSUME NEW u \in Seq(Entry)
      PROVE  (Before(u, s) => Before(u, t)) /\ (Before(s, u) => Before(t, u))
  BY <1>1 DEF Before
<1>4. ASSUME NEW n \in Nat PROVE UpTo(s, n) => UpTo(t, n)
  BY <1>1 DEF UpTo
<1> QED
  BY <1>2, <1>3, <1>4

LEMMA TailPiece ==
  ASSUME NEW s \in Seq(Entry), s # <<>>
  PROVE  /\ Tail(s) \in Seq(Entry) /\ Len(Tail(s)) = Len(s) - 1 /\ Piece(s, Tail(s))
         /\ Head(s) \in Entry /\ Head(s) = s[1] /\ Len(s) > 0
         /\ \A i \in 1..Len(Tail(s)) : Tail(s)[i] = s[i + 1]
<1>1. /\ Tail(s) \in Seq(Entry) /\ Len(Tail(s)) = Len(s) - 1 /\ Len(s) > 0
      /\ Head(s) \in Entry /\ Head(s) = s[1] /\ Len(s) \in Nat
      /\ \A i \in 1..Len(Tail(s)) : Tail(s)[i] = s[i + 1]
  OBVIOUS
<1>2. \A i \in 1..Len(Tail(s)) : 1 + i \in 1..Len(s) /\ Tail(s)[i] = s[1 + i]
  BY <1>1
<1> QED
  BY <1>1, <1>2 DEF Piece

LEMMA FirstPiece ==
  ASSUME NEW s \in Seq(Entry)
  PROVE  /\ First(s) \in Seq(Entry) /\ Rest(s) \in Seq(Entry)
         /\ Len(First(s)) <= BatchSize /\ Len(Rest(s)) <= Len(s)
         /\ (First(s) = <<>>) <=> (s = <<>>)
         /\ Piece(s, First(s)) /\ Piece(s, Rest(s))
         /\ Ascending(s) => Before(First(s), Rest(s))
<1> DEFINE n == IF Len(s) < BatchSize THEN Len(s) ELSE BatchSize
<1>1. /\ Len(s) \in Nat /\ n \in 0..Len(s) /\ n <= BatchSize /\ BatchSize \in Nat \ {0}
      /\ n = 0 <=> Len(s) = 0
  OBVIOUS
<1> HIDE DEF n
<1>2. /\ First(s) \in Seq(Entry) /\ Len(First(s)) = n
      /\ \A i \in 1..n : First(s)[i] = s[i]
  BY <1>1 DEF First, n
<1>3. /\ Rest(s) \in Seq(Entry)
      /\ Len(Rest(s)) = IF Len(s) > BatchSize THEN Len(s) - BatchSize ELSE 0
      /\ \A i \in 1..Len(Rest(s)) : Rest(s)[i] = s[BatchSize + i]
  <2>1. \A i \in (BatchSize + 1)..Len(s) : s[i] \in Entry
    BY <1>1
  <2>2. /\ Rest(s) \in Seq(Entry)
        /\ Len(Rest(s)) = IF BatchSize + 1 <= Len(s) THEN Len(s) - (BatchSize + 1) + 1 ELSE 0
        /\ \A i \in 1..(Len(s) - (BatchSize + 1) + 1) : Rest(s)[i] = s[BatchSize + 1 + i - 1]
    BY <1>1, <2>1, SubSeqProperties DEF Rest
  <2>3. Len(Rest(s)) = IF Len(s) > BatchSize THEN Len(s) - BatchSize ELSE 0
    BY <1>1, <2>2
  <2>4. \A i \in 1..Len(Rest(s)) : i \in 1..(Len(s) - (BatchSize + 1) + 1)
                                  /\ BatchSize + 1 + i - 1 = BatchSize + i
    BY <1>1, <2>3
  <2> QED
    BY <2>2, <2>3, <2>4
<1>4. (First(s) = <<>>) <=> (s = <<>>)
  BY <1>1, <1>2
<1>5. Piece(s, First(s))
  <2>1. \A i \in 1..Len(First(s)) : 0 + i \in 1..Len(s) /\ First(s)[i] = s[0 + i]
    BY <1>1, <1>2
  <2> QED
    BY <2>1 DEF Piece
<1>6. Piece(s, Rest(s))
  <2>1. \A i \in 1..Len(Rest(s)) : BatchSize + i \in 1..Len(s) /\ Rest(s)[i] = s[BatchSize + i]
    BY <1>1, <1>3
  <2> QED
    BY <1>1, <2>1 DEF Piece
<1>7. Ascending(s) => Before(First(s), Rest(s))
  <2> SUFFICES ASSUME Ascending(s), NEW i \in 1..Len(First(s)), NEW j \in 1..Len(Rest(s))
               PROVE  First(s)[i] < Rest(s)[j]
    BY DEF Before
  <2>1. i \in 1..Len(s) /\ BatchSize + j \in 1..Len(s) /\ i < BatchSize + j
    BY <1>1, <1>2, <1>3
  <2>2. First(s)[i] = s[i] /\ Rest(s)[j] = s[BatchSize + j]
    BY <1>2, <1>3
  <2> QED
    BY <2>1, <2>2 DEF Ascending
<1> QED
  BY <1>1, <1>2, <1>3, <1>4, <1>5, <1>6, <1>7

(* One more at the end *)
LEMMA AppendOne ==
  ASSUME NEW s \in Seq(Entry), NEW e \in Entry
  PROVE  /\ Append(s, e) \in Seq(Entry) /\ Len(Append(s, e)) = Len(s) + 1 /\ Len(s) \in Nat
         /\ \A i \in 1..Len(s) : Append(s, e)[i] = s[i]
         /\ Append(s, e)[Len(s) + 1] = e
         /\ Append(s, e) # <<>>
OBVIOUS

LEMMA AppendKeeps ==
  ASSUME NEW s \in Seq(Entry), NEW e \in Entry
  PROVE  /\ Ascending(s) /\ (\A i \in 1..Len(s) : s[i] < e) => Ascending(Append(s, e))
         /\ \A u \in Seq(Entry) :
              /\ Before(u, s) /\ (\A i \in 1..Len(u) : u[i] < e) => Before(u, Append(s, e))
              /\ Before(s, u) /\ (\A j \in 1..Len(u) : e < u[j]) => Before(Append(s, e), u)
         /\ \A n \in Nat : UpTo(s, n) /\ e <= n => UpTo(Append(s, e), n)
<1>1. /\ Append(s, e) \in Seq(Entry) /\ Len(Append(s, e)) = Len(s) + 1 /\ Len(s) \in Nat
      /\ \A i \in 1..Len(s) : Append(s, e)[i] = s[i]
      /\ Append(s, e)[Len(s) + 1] = e
  BY AppendOne
<1>2. \A i \in 1..Len(Append(s, e)) : i \in 1..Len(s) \/ i = Len(s) + 1
  BY <1>1
<1>3. Ascending(s) /\ (\A i \in 1..Len(s) : s[i] < e) => Ascending(Append(s, e))
  <2> SUFFICES ASSUME Ascending(s), \A i \in 1..Len(s) : s[i] < e,
                      NEW i \in 1..Len(Append(s, e)), NEW j \in 1..Len(Append(s, e)), i < j
               PROVE  Append(s, e)[i] < Append(s, e)[j]
    BY DEF Ascending
  <2>1. i \in 1..Len(s)
    BY <1>1, <1>2
  <2> QED
    BY <1>1, <1>2, <2>1 DEF Ascending
<1>4. ASSUME NEW u \in Seq(Entry)
      PROVE  /\ Before(u, s) /\ (\A i \in 1..Len(u) : u[i] < e) => Before(u, Append(s, e))
             /\ Before(s, u) /\ (\A j \in 1..Len(u) : e < u[j]) => Before(Append(s, e), u)
  BY <1>1, <1>2 DEF Before
<1>5. ASSUME NEW n \in Nat PROVE UpTo(s, n) /\ e <= n => UpTo(Append(s, e), n)
  BY <1>1, <1>2 DEF UpTo
<1> QED
  BY <1>3, <1>4, <1>5

-----------------------------------------------------------------------------
LEMMA UpToMore ==
  ASSUME NEW s \in Seq(Entry), NEW m \in Nat, NEW n \in Nat, m <= n, UpTo(s, m)
  PROVE  UpTo(s, n) /\ (m < n => \A i \in 1..Len(s) : s[i] < n)
<1>1. \A i \in 1..Len(s) : s[i] \in Nat /\ s[i] <= m
  BY DEF UpTo, Entry
<1> QED
  BY <1>1 DEF UpTo

LEMMA AppendHead ==
  ASSUME NEW s \in Seq(Entry), NEW e \in Entry
  PROVE  Head(Append(s, e)) = IF s = <<>> THEN e ELSE Head(s)
<1>1. Append(s, e) # <<>> /\ Append(s, e) \in Seq(Entry)
  BY AppendOne
<1>2. Head(Append(s, e)) = Append(s, e)[1]
  BY <1>1, TailPiece
<1>3. CASE s = <<>>
  BY <1>2, <1>3, AppendOne
<1>4. CASE s # <<>>
  <2>1. Head(s) = s[1] /\ 1 \in 1..Len(s)
    BY <1>4, TailPiece
  <2> QED
    BY <1>2, <1>4, <2>1, AppendOne
<1> QED
  BY <1>3, <1>4

(* The three sequences and what is known of them, for a step *)

Typed ==
  /\ queue \in Seq(Entry) /\ batch \in Seq(Entry) /\ inserted \in Seq(Entry)
  /\ Len(queue) <= MaxQueue /\ Len(batch) <= BatchSize
  /\ offered \in 0..MaxEntries /\ probing \in {0} \cup Entry /\ fresh \in 0..BatchSize
  /\ flushing \in BOOLEAN

LEMMA TypedInv == AccessInv => Typed
BY DEF AccessInv, TypeOK, Typed

(* A flush that begins keeps the order of what it cuts in two. *)
LEMMA TakeBatchKeeps ==
  ASSUME NEW q \in Seq(Entry), Len(q) <= MaxQueue, TakeBatch(q),
         NEW ins \in Seq(Entry), NEW n \in Nat,
         Ascending(q), Before(ins, q), UpTo(q, n)
  PROVE  /\ queue' \in Seq(Entry) /\ batch' \in Seq(Entry)
         /\ Len(queue') <= MaxQueue /\ Len(batch') <= BatchSize
         /\ fresh' = 0 /\ flushing' \in BOOLEAN
         /\ flushing' <=> batch' # <<>>
         /\ Ascending(batch') /\ Ascending(queue')
         /\ Before(ins, batch') /\ Before(ins, queue') /\ Before(batch', queue')
         /\ UpTo(batch', n) /\ UpTo(queue', n)
<1>1. batch' = First(q) /\ queue' = Rest(q) /\ flushing' = (q # <<>>) /\ fresh' = 0
  BY DEF TakeBatch
<1>2. /\ First(q) \in Seq(Entry) /\ Rest(q) \in Seq(Entry)
      /\ Len(First(q)) <= BatchSize /\ Len(Rest(q)) <= Len(q)
      /\ (First(q) = <<>>) <=> (q = <<>>)
      /\ Piece(q, First(q)) /\ Piece(q, Rest(q))
      /\ Before(First(q), Rest(q))
  BY FirstPiece
<1>3. /\ Ascending(First(q)) /\ Before(ins, First(q)) /\ UpTo(First(q), n)
      /\ Ascending(Rest(q)) /\ Before(ins, Rest(q)) /\ UpTo(Rest(q), n)
  BY <1>2, PieceKeeps
<1>4. Len(Rest(q)) <= MaxQueue
  <2>1. Len(Rest(q)) \in Nat /\ Len(q) \in Nat
    BY <1>2
  <2> QED
    BY <1>2, <2>1
<1>5. flushing' \in BOOLEAN /\ (flushing' <=> batch' # <<>>)
  BY <1>1, <1>2
<1> QED
  BY <1>1, <1>2, <1>3, <1>4, <1>5

(* _flushQueue() with the queue as q says, or no flush: what is needed and what is
   kept. *)
LEMMA FlushQueueKeeps ==
  ASSUME AccessInv, NEW q \in Seq(Entry), Len(q) <= MaxQueue,
         FlushQueue(q) \/ (queue' = q /\ UNCHANGED <<batch, flushing, probing, checked, fresh>>),
         NEW n \in 0..MaxEntries,
         offered' = n, offered <= n, inserted' = inserted, missing' = missing,
         Ascending(q), Before(inserted, q), Before(batch, q), UpTo(q, n),
         probing # 0 => q # <<>> /\ probing <= Head(q)
  PROVE  /\ Typed' /\ InOrder' /\ BatchOfFlush' /\ ProbeAlone'
         /\ fresh' <= BatchSize - Len(batch')
         /\ checked' \in BOOLEAN
<1>0. /\ Typed /\ InOrder /\ BatchOfFlush /\ ProbeAlone /\ fresh <= BatchSize - Len(batch)
      /\ checked \in BOOLEAN
  BY TypedInv DEF AccessInv, TypeOK
<1>1. UpTo(inserted, n) /\ UpTo(batch, n)
  <2>1. /\ offered \in Nat /\ n \in Nat /\ inserted \in Seq(Entry) /\ batch \in Seq(Entry)
        /\ UpTo(inserted, offered) /\ UpTo(batch, offered)
    BY <1>0 DEF Typed, InOrder
  <2> QED
    BY <2>1, UpToMore
<1>2. CASE queue' = q /\ UNCHANGED <<batch, flushing, probing, checked, fresh>>
  <2>1. Typed'
    BY <1>0, <1>2 DEF Typed
  <2>2. InOrder'
    BY <1>0, <1>1, <1>2 DEF InOrder, Ascending, Before, UpTo
  <2>3. BatchOfFlush' /\ ProbeAlone'
    BY <1>0, <1>2 DEF BatchOfFlush, ProbeAlone
  <2> QED
    BY <1>0, <1>2, <2>1, <2>2, <2>3
<1>3. CASE /\ ~flushing /\ q # <<>> /\ missing /\ ~checked
           /\ checked' = TRUE /\ queue' = q /\ probing' = Head(q)
           /\ UNCHANGED <<batch, flushing, fresh>>
  <2>1. Head(q) \in Entry /\ Head(q) = q[1] /\ 1 \in 1..Len(q)
    BY <1>3, TailPiece
  <2>2. Typed'
    BY <1>0, <1>3, <2>1 DEF Typed
  <2>3. InOrder'
    BY <1>0, <1>1, <1>3 DEF InOrder, Ascending, Before, UpTo
  <2>4. \A i \in 1..Len(inserted) : inserted[i] < Head(q)
    BY <2>1 DEF Before
  <2>5. Head(q) <= Head(q)
    BY <2>1 DEF Entry
  <2>6. BatchOfFlush' /\ ProbeAlone'
    BY <1>0, <1>3, <2>4, <2>5 DEF BatchOfFlush, ProbeAlone
  <2> QED
    BY <1>0, <1>3, <2>2, <2>3, <2>6
<1>4. CASE ~flushing /\ q # <<>> /\ ~missing /\ TakeBatch(q) /\ UNCHANGED <<probing, checked>>
  <2>1. inserted \in Seq(Entry) /\ n \in Nat
    BY <1>0 DEF Typed
  <2>2. /\ queue' \in Seq(Entry) /\ batch' \in Seq(Entry)
        /\ Len(queue') <= MaxQueue /\ Len(batch') <= BatchSize
        /\ fresh' = 0 /\ flushing' \in BOOLEAN
        /\ flushing' <=> batch' # <<>>
        /\ Ascending(batch') /\ Ascending(queue')
        /\ Before(inserted, batch') /\ Before(inserted, queue') /\ Before(batch', queue')
        /\ UpTo(batch', n) /\ UpTo(queue', n)
    BY <1>4, <2>1, TakeBatchKeeps
  <2>3. Len(batch') \in Nat
    BY <2>2
  <2>4. Typed'
    BY <1>0, <1>4, <2>2 DEF Typed
  <2>5. InOrder'
    BY <1>0, <1>1, <2>2 DEF InOrder, Ascending, Before, UpTo
  <2>6. probing = 0
    BY <1>0, <1>4 DEF ProbeAlone
  <2>7. BatchOfFlush' /\ ProbeAlone'
    BY <1>4, <2>2, <2>6 DEF BatchOfFlush, ProbeAlone
  <2> QED
    BY <1>0, <1>4, <2>2, <2>3, <2>4, <2>5, <2>7
<1> QED
  BY <1>2, <1>3, <1>4 DEF FlushQueue

(* The rest of the type, for the steps that leave the sequences alone *)
Flags ==
  /\ quick \in BOOLEAN /\ missing \in BOOLEAN /\ checked \in BOOLEAN
  /\ pending \in BOOLEAN /\ noticeTimer \in BOOLEAN /\ recent \in BOOLEAN
  /\ stopped \in BOOLEAN /\ tables \in BOOLEAN /\ losses \in 0..MaxLosses

Core ==
  /\ Typed /\ InOrder /\ BatchOfFlush /\ ProbeAlone
  /\ fresh <= BatchSize - Len(batch)

LEMMA Parts == AccessInv <=> Core /\ Flags /\ LastNoticeFollows
BY DEF AccessInv, TypeOK, Core, Flags, Typed

LEMMA PartsNext == Core' /\ Flags' /\ LastNoticeFollows' => AccessInv'
BY DEF AccessInv, TypeOK, Core, Flags, Typed

-----------------------------------------------------------------------------
(* The callers of _flushQueue() *)

LEMMA EnqueueKeeps == ASSUME AccessInv, enqueueAccess PROVE AccessInv'
<1>0. Core /\ Flags /\ LastNoticeFollows
  BY Parts
<1>1. /\ offered \in Nat /\ offered + 1 \in 0..MaxEntries /\ offered + 1 \in Entry
      /\ offered' = offered + 1 /\ inserted' = inserted /\ missing' = missing
  BY <1>0 DEF enqueueAccess, Core, Typed, Entry
<1>2. /\ queue \in Seq(Entry) /\ batch \in Seq(Entry) /\ inserted \in Seq(Entry)
      /\ Len(queue) \in Nat /\ Len(queue) <= MaxQueue /\ MaxQueue \in Nat /\ 0 < MaxQueue
  BY <1>0 DEF Core, Typed
<1>3. /\ Ascending(queue) /\ Before(inserted, queue) /\ Before(batch, queue)
      /\ UpTo(queue, offered) /\ UpTo(inserted, offered) /\ UpTo(batch, offered)
  BY <1>0 DEF Core, InOrder
<1>4. probing # 0 => probing <= Head(queue) /\ queue # <<>>
  BY <1>0 DEF Core, ProbeAlone
<1>5. PICK kept \in Seq(Entry) :
        /\ kept = IF Len(queue) >= MaxQueue THEN Tail(queue) ELSE queue
        /\ Len(kept) + 1 <= MaxQueue
        /\ Ascending(kept) /\ Before(inserted, kept) /\ Before(batch, kept) /\ UpTo(kept, offered)
        /\ probing # 0 /\ kept # <<>> => probing <= Head(kept)
  <2>1. CASE Len(queue) >= MaxQueue
    <3>1. queue # <<>>
      BY <1>2, <2>1
    <3>2. Tail(queue) \in Seq(Entry) /\ Len(Tail(queue)) = Len(queue) - 1 /\ Piece(queue, Tail(queue))
      BY <1>2, <3>1, TailPiece
    <3>3. /\ Ascending(Tail(queue)) /\ Before(inserted, Tail(queue)) /\ Before(batch, Tail(queue))
          /\ UpTo(Tail(queue), offered)
      BY <1>1, <1>2, <1>3, <3>2, PieceKeeps
    <3>4. ASSUME probing # 0, Tail(queue) # <<>> PROVE probing <= Head(Tail(queue))
      <4>1. Head(Tail(queue)) = Tail(queue)[1] /\ Len(Tail(queue)) > 0
        BY <3>2, <3>4, TailPiece
      <4>2. Head(queue) = queue[1] /\ Tail(queue)[1] = queue[2] /\ {1, 2} \subseteq 1..Len(queue)
        BY <1>2, <3>1, <3>2, <4>1, TailPiece
      <4>3. queue[1] < queue[2]
        BY <1>3, <4>2 DEF Ascending
      <4>4. queue[1] \in Entry /\ queue[2] \in Entry
        BY <1>2, <4>2
      <4>5. probing \in Nat /\ queue[1] \in Nat /\ queue[2] \in Nat
        <5>1. probing \in {0} \cup Entry
          BY <1>0 DEF Core, Typed
        <5> QED
          BY <4>4, <5>1 DEF Entry
      <4>6. probing <= queue[1]
        BY <1>4, <3>4, <4>2
      <4>7. probing <= queue[2]
        BY <4>3, <4>5, <4>6
      <4> QED
        BY <4>1, <4>2, <4>7
    <3>5. Len(Tail(queue)) + 1 <= MaxQueue
      BY <1>2, <3>2
    <3>6. PICK kept \in Seq(Entry) : kept = Tail(queue)
      BY <3>2
    <3> QED
      BY <2>1, <3>3, <3>4, <3>5, <3>6
  <2>2. CASE ~(Len(queue) >= MaxQueue)
    BY <1>2, <1>3, <1>4, <2>2
  <2> QED
    BY <2>1, <2>2
<1>6. PICK q \in Seq(Entry) : q = Append(kept, offered + 1)
  BY <1>1, AppendOne
<1>7. /\ Len(q) <= MaxQueue /\ Ascending(q)
      /\ Before(inserted, q) /\ Before(batch, q) /\ UpTo(q, offered + 1)
  <2>1. /\ \A i \in 1..Len(kept) : kept[i] < offered + 1
        /\ \A i \in 1..Len(inserted) : inserted[i] < offered + 1
        /\ \A i \in 1..Len(batch) : batch[i] < offered + 1
        /\ UpTo(kept, offered + 1)
    <3>1. offered + 1 \in Nat /\ offered <= offered + 1 /\ offered < offered + 1
      BY <1>1
    <3>2. UpTo(kept, offered + 1) /\ \A i \in 1..Len(kept) : kept[i] < offered + 1
      BY <1>1, <1>5, <3>1, UpToMore
    <3>3. \A i \in 1..Len(inserted) : inserted[i] < offered + 1
      BY <1>1, <1>2, <1>3, <3>1, UpToMore
    <3>4. \A i \in 1..Len(batch) : batch[i] < offered + 1
      BY <1>1, <1>2, <1>3, <3>1, UpToMore
    <3> QED
      BY <3>2, <3>3, <3>4
  <2>2. Len(q) = Len(kept) + 1 /\ Len(q) <= MaxQueue
    BY <1>1, <1>5, <1>6, AppendOne
  <2>3. Ascending(q)
    BY <1>1, <1>5, <1>6, <2>1, AppendKeeps
  <2>4. /\ Before(inserted, kept) /\ (\A i \in 1..Len(inserted) : inserted[i] < offered + 1)
           => Before(inserted, Append(kept, offered + 1))
        /\ Before(batch, kept) /\ (\A i \in 1..Len(batch) : batch[i] < offered + 1)
           => Before(batch, Append(kept, offered + 1))
    BY <1>1, <1>2, AppendKeeps
  <2>5. offered + 1 \in Nat /\ offered + 1 <= offered + 1
    BY <1>1
  <2>6. UpTo(q, offered + 1)
    BY <1>1, <1>6, <2>1, <2>5, AppendKeeps
  <2> QED
    BY <1>5, <1>6, <2>1, <2>2, <2>3, <2>4, <2>6
<1>8. probing # 0 => q # <<>> /\ probing <= Head(q)
  <2> SUFFICES ASSUME probing # 0 PROVE q # <<>> /\ probing <= Head(q)
    OBVIOUS
  <2>1. q # <<>> /\ Head(q) = IF kept = <<>> THEN offered + 1 ELSE Head(kept)
    BY <1>1, <1>6, AppendOne, AppendHead
  <2>2. probing <= offered + 1
    <3>1. Head(queue) = queue[1] /\ 1 \in 1..Len(queue)
      BY <1>2, <1>4, TailPiece
    <3>2. queue[1] <= offered /\ queue[1] \in Nat /\ probing \in Nat
      BY <1>0, <1>2, <1>3, <3>1 DEF UpTo, Core, Typed, Entry
    <3> QED
      BY <1>1, <1>4, <3>1, <3>2
  <2> QED
    BY <1>5, <2>1, <2>2
<1>9. \/ FlushQueue(q)
      \/ queue' = q /\ UNCHANGED <<batch, flushing, probing, checked, fresh>>
  BY <1>5, <1>6 DEF enqueueAccess
<1>10. /\ Typed' /\ InOrder' /\ BatchOfFlush' /\ ProbeAlone'
       /\ fresh' <= BatchSize - Len(batch') /\ checked' \in BOOLEAN
  <2>1. offered <= offered + 1
    BY <1>1
  <2> QED
    BY <1>1, <1>7, <1>8, <1>9, <2>1, FlushQueueKeeps
<1>11. Flags'
  <2>1. quick' = (quick \/ ~flushing') /\ UNCHANGED <<missing, noticeVars, stopped, tables, losses>>
    BY DEF enqueueAccess
  <2>2. quick' \in BOOLEAN
    BY <2>1
  <2> QED
    BY <1>0, <1>10, <2>1, <2>2 DEF Flags, noticeVars
<1>12. LastNoticeFollows'
  BY <1>0 DEF enqueueAccess, noticeVars, LastNoticeFollows
<1> QED
  BY <1>10, <1>11, <1>12, PartsNext DEF Core

LEMMA FlushKeeps ==
  ASSUME AccessInv, FlushQueue(queue), checked' \in BOOLEAN => Flags', LastNoticeFollows',
         UNCHANGED <<missing, offered, inserted>>
  PROVE  AccessInv'
<1>0. Core
  BY Parts
<1>1. /\ offered \in 0..MaxEntries /\ offered <= offered /\ queue \in Seq(Entry)
      /\ Len(queue) <= MaxQueue
  BY <1>0 DEF Core, Typed
<1>2. /\ Ascending(queue) /\ Before(inserted, queue) /\ Before(batch, queue)
      /\ UpTo(queue, offered)
  BY <1>0 DEF Core, InOrder
<1>3. probing # 0 => queue # <<>> /\ probing <= Head(queue)
  BY <1>0 DEF Core, ProbeAlone
<1>4. /\ Typed' /\ InOrder' /\ BatchOfFlush' /\ ProbeAlone'
      /\ fresh' <= BatchSize - Len(batch') /\ checked' \in BOOLEAN
  BY <1>1, <1>2, <1>3, FlushQueueKeeps
<1> QED
  BY <1>4, PartsNext DEF Core

-----------------------------------------------------------------------------
(* The answers to a probe *)

LEMMA ProbeStoredKeeps == ASSUME AccessInv, ProbeStored PROVE AccessInv'
<1>0. Core /\ Flags /\ LastNoticeFollows
  BY Parts
<1>1. /\ probing # 0 /\ inserted' = Append(inserted, probing) /\ probing' = 0
      /\ missing' = FALSE /\ TakeBatch(Tail(queue))
      /\ UNCHANGED <<quick, checked, noticeVars, stopped, offered, tables, losses>>
  BY DEF ProbeStored
<1>2. /\ queue \in Seq(Entry) /\ inserted \in Seq(Entry) /\ probing \in Entry
      /\ Len(queue) <= MaxQueue /\ MaxQueue \in Nat /\ offered \in Nat
  BY <1>0, <1>1 DEF Core, Typed
<1>3. /\ queue # <<>> /\ probing <= Head(queue)
      /\ \A i \in 1..Len(inserted) : inserted[i] < probing
  BY <1>0, <1>1 DEF Core, ProbeAlone
<1>4. /\ Ascending(inserted) /\ Ascending(queue) /\ Before(inserted, queue)
      /\ UpTo(inserted, offered) /\ UpTo(queue, offered)
  BY <1>0 DEF Core, InOrder
<1>5. /\ Tail(queue) \in Seq(Entry) /\ Len(Tail(queue)) = Len(queue) - 1
      /\ Piece(queue, Tail(queue)) /\ Head(queue) = queue[1] /\ Len(queue) > 0
      /\ \A j \in 1..Len(Tail(queue)) : Tail(queue)[j] = queue[j + 1]
  BY <1>2, <1>3, TailPiece
<1>6. /\ Ascending(Tail(queue)) /\ Before(inserted, Tail(queue)) /\ UpTo(Tail(queue), offered)
      /\ Len(Tail(queue)) <= MaxQueue
  <2>1. Len(Tail(queue)) <= MaxQueue
    BY <1>2, <1>5
  <2>2. Ascending(Tail(queue)) /\ Before(inserted, Tail(queue))
    BY <1>2, <1>4, <1>5, PieceKeeps
  <2>3. UpTo(Tail(queue), offered)
    BY <1>2, <1>4, <1>5, PieceKeeps
  <2> QED
    BY <2>1, <2>2, <2>3
<1>7. probing <= offered /\ \A j \in 1..Len(Tail(queue)) : probing < Tail(queue)[j]
  <2>1. Len(queue) \in Nat /\ 1 \in 1..Len(queue) /\ queue[1] \in Entry
    BY <1>2, <1>5
  <2>2. queue[1] \in Nat /\ probing \in Nat /\ probing <= queue[1] /\ queue[1] <= offered
    BY <1>2, <1>3, <1>4, <1>5, <2>1 DEF UpTo, Entry
  <2>3. ASSUME NEW j \in 1..Len(Tail(queue)) PROVE probing < Tail(queue)[j]
    <3>1. j + 1 \in 1..Len(queue) /\ 1 < j + 1 /\ Tail(queue)[j] = queue[j + 1]
      BY <1>5, <2>1
    <3>2. queue[1] < queue[j + 1] /\ queue[j + 1] \in Entry
      BY <1>2, <1>4, <2>1, <3>1 DEF Ascending
    <3>3. queue[j + 1] \in Nat
      BY <3>2 DEF Entry
    <3> QED
      BY <2>2, <3>1, <3>2, <3>3
  <2> QED
    BY <1>2, <2>2, <2>3
<1>8. PICK ins \in Seq(Entry) : ins = Append(inserted, probing)
  BY <1>2, AppendOne
<1>9. /\ Ascending(ins) /\ UpTo(ins, offered)
  BY <1>2, <1>3, <1>4, <1>7, <1>8, AppendKeeps
<1>10. Before(ins, Tail(queue))
  BY <1>2, <1>5, <1>6, <1>7, <1>8, AppendKeeps
<1>11. /\ queue' \in Seq(Entry) /\ batch' \in Seq(Entry)
       /\ Len(queue') <= MaxQueue /\ Len(batch') <= BatchSize
       /\ fresh' = 0 /\ flushing' \in BOOLEAN
       /\ flushing' <=> batch' # <<>>
       /\ Ascending(batch') /\ Ascending(queue')
       /\ Before(ins, batch') /\ Before(ins, queue') /\ Before(batch', queue')
       /\ UpTo(batch', offered) /\ UpTo(queue', offered)
  BY <1>1, <1>2, <1>5, <1>6, <1>10, TakeBatchKeeps
<1>12. /\ Typed' /\ fresh' <= BatchSize - Len(batch')
  <2>1. Len(batch') \in Nat
    BY <1>11
  <2> QED
    BY <1>0, <1>1, <1>8, <1>11, <2>1 DEF Typed, Core
<1>13. InOrder'
  <2>1. inserted' = ins /\ offered' = offered
    BY <1>1, <1>8
  <2> QED
    BY <1>9, <1>11, <2>1 DEF InOrder, Ascending, Before, UpTo
<1>14. BatchOfFlush' /\ ProbeAlone'
  BY <1>1, <1>11 DEF BatchOfFlush, ProbeAlone
<1>15. Flags' /\ LastNoticeFollows'
  BY <1>0, <1>1 DEF Flags, LastNoticeFollows, noticeVars
<1> QED
  BY <1>12, <1>13, <1>14, <1>15, PartsNext DEF Core

LEMMA ProbeMissingKeeps == ASSUME AccessInv, ProbeMissing PROVE AccessInv'
<1>0. Core /\ Flags /\ LastNoticeFollows
  BY Parts
<1>1. /\ probing' = 0 /\ queue' = <<>>
      /\ UNCHANGED <<batch, flushing, checked, quick, missing, fresh, noticeVars, stopped,
                     offered, inserted, tables, losses>>
  BY DEF ProbeMissing
<1>2. queue' \in Seq(Entry) /\ Len(queue') = 0
  BY <1>1
<1>3. Typed' /\ fresh' <= BatchSize - Len(batch')
  BY <1>0, <1>1, <1>2 DEF Core, Typed
<1>4. InOrder'
  <2>1. Ascending(<<>>) /\ \A s \in Seq(Entry), n \in Nat : Before(s, <<>>) /\ UpTo(<<>>, n)
    BY DEF Ascending, Before, UpTo
  <2>2. /\ Ascending(queue)' /\ Before(inserted, queue)' /\ Before(batch, queue)'
        /\ UpTo(queue, offered)'
    BY <1>0, <1>1, <2>1 DEF Core, Typed, Ascending, Before, UpTo
  <2> QED
    BY <1>0, <1>1, <2>2 DEF Core, InOrder, Ascending, Before, UpTo
<1>5. BatchOfFlush' /\ ProbeAlone'
  BY <1>0, <1>1 DEF Core, BatchOfFlush, ProbeAlone
<1>6. Flags' /\ LastNoticeFollows'
  BY <1>0, <1>1 DEF Flags, LastNoticeFollows, noticeVars
<1> QED
  BY <1>3, <1>4, <1>5, <1>6, PartsNext DEF Core

LEMMA ProbeFailsKeeps == ASSUME AccessInv, ProbeFails PROVE AccessInv'
<1>0. Core /\ Flags /\ LastNoticeFollows
  BY Parts
<1>1. /\ probing' = 0 /\ TakeBatch(queue)
      /\ UNCHANGED <<quick, missing, checked, noticeVars, stopped, offered, inserted,
                     tables, losses>>
  BY DEF ProbeFails
<1>2. /\ queue \in Seq(Entry) /\ inserted \in Seq(Entry) /\ Len(queue) <= MaxQueue
      /\ offered \in Nat
  BY <1>0 DEF Core, Typed
<1>3. /\ Ascending(inserted) /\ Ascending(queue) /\ Before(inserted, queue)
      /\ UpTo(inserted, offered) /\ UpTo(queue, offered)
  BY <1>0 DEF Core, InOrder
<1>4. /\ queue' \in Seq(Entry) /\ batch' \in Seq(Entry)
      /\ Len(queue') <= MaxQueue /\ Len(batch') <= BatchSize
      /\ fresh' = 0 /\ flushing' \in BOOLEAN
      /\ flushing' <=> batch' # <<>>
      /\ Ascending(batch') /\ Ascending(queue')
      /\ Before(inserted, batch') /\ Before(inserted, queue') /\ Before(batch', queue')
      /\ UpTo(batch', offered) /\ UpTo(queue', offered)
  BY <1>1, <1>2, <1>3, TakeBatchKeeps
<1>5. Typed' /\ fresh' <= BatchSize - Len(batch')
  <2>1. Len(batch') \in Nat
    BY <1>4
  <2> QED
    BY <1>0, <1>1, <1>4, <2>1 DEF Core, Typed
<1>6. InOrder'
  BY <1>1, <1>3, <1>4 DEF InOrder, Ascending, Before, UpTo
<1>7. BatchOfFlush' /\ ProbeAlone'
  BY <1>1, <1>4 DEF BatchOfFlush, ProbeAlone
<1>8. Flags' /\ LastNoticeFollows'
  BY <1>0, <1>1 DEF Flags, LastNoticeFollows, noticeVars
<1> QED
  BY <1>5, <1>6, <1>7, <1>8, PartsNext DEF Core

-----------------------------------------------------------------------------
(* The inserts of a flush *)

(* What an insert leaves: the rest of the batch, what was inserted, the notices. *)
LEMMA GoesOnKeeps ==
  ASSUME AccessInv, flushing,
         NEW rest \in Seq(Entry), NEW n \in Nat, FlushGoesOn(rest, n),
         NEW ins \in Seq(Entry), inserted' = ins,
         Ascending(rest), Before(rest, queue), UpTo(rest, offered), Len(rest) <= BatchSize,
         n <= BatchSize - Len(rest),
         Ascending(ins), Before(ins, rest), Before(ins, queue), UpTo(ins, offered),
         missing' \in BOOLEAN, checked' \in BOOLEAN,
         UNCHANGED <<queue, probing, quick, stopped, offered, tables, losses>>
  PROVE  AccessInv'
<1>0. Core /\ Flags /\ LastNoticeFollows
  BY Parts
<1>1. batch' = rest /\ Len(rest) \in Nat /\ (rest = <<>> => Len(rest) = 0)
  BY DEF FlushGoesOn
<1>2. /\ flushing' \in BOOLEAN /\ (flushing' <=> batch' # <<>>)
      /\ fresh' \in 0..BatchSize /\ fresh' <= BatchSize - Len(batch')
  <2>1. n \in 0..BatchSize /\ 0 \in 0..BatchSize /\ 0 <= BatchSize - Len(rest)
    BY <1>1
  <2>2. CASE rest # <<>>
    BY <1>1, <2>1, <2>2 DEF FlushGoesOn
  <2>3. CASE rest = <<>>
    BY <1>1, <2>1, <2>3 DEF FlushGoesOn
  <2> QED
    BY <2>2, <2>3
<1>3. Typed'
  BY <1>0, <1>1, <1>2 DEF Core, Typed
<1>4. InOrder'
  BY <1>0, <1>1 DEF Core, InOrder, Ascending, Before, UpTo
<1>5. probing = 0
  BY <1>0 DEF Core, ProbeAlone
<1>6. BatchOfFlush' /\ ProbeAlone'
  BY <1>2, <1>5 DEF BatchOfFlush, ProbeAlone
<1>7. /\ pending' \in BOOLEAN /\ noticeTimer' \in BOOLEAN /\ recent' \in BOOLEAN
      /\ LastNoticeFollows'
  <2>1. CASE UNCHANGED noticeVars
    BY <1>0, <2>1 DEF noticeVars, Flags, LastNoticeFollows
  <2>2. CASE Notify
    BY <1>0, <2>2 DEF Notify, Flags, LastNoticeFollows
  <2> QED
    BY <2>1, <2>2 DEF FlushGoesOn
<1>8. Flags'
  BY <1>0, <1>7 DEF Flags
<1> QED
  BY <1>2, <1>3, <1>4, <1>6, <1>7, <1>8, PartsNext DEF Core

LEMMA InsertKeeps ==
  ASSUME AccessInv, InsertStored \/ InsertFails \/ InsertMissing
  PROVE  AccessInv'
<1>0. Core /\ Flags
  BY Parts
<1>1. /\ flushing /\ batch # <<>> /\ batch \in Seq(Entry) /\ queue \in Seq(Entry)
      /\ inserted \in Seq(Entry) /\ offered \in Nat /\ Len(batch) <= BatchSize
      /\ fresh \in Nat /\ fresh <= BatchSize - Len(batch) /\ BatchSize \in Nat
  BY <1>0 DEF InsertStored, InsertFails, InsertMissing, Core, Typed, BatchOfFlush
<1>2. /\ Ascending(inserted) /\ Ascending(batch) /\ Ascending(queue)
      /\ Before(inserted, batch) /\ Before(inserted, queue) /\ Before(batch, queue)
      /\ UpTo(inserted, offered) /\ UpTo(batch, offered) /\ UpTo(queue, offered)
  BY <1>0 DEF Core, InOrder
<1>3. /\ Tail(batch) \in Seq(Entry) /\ Len(Tail(batch)) = Len(batch) - 1
      /\ Piece(batch, Tail(batch)) /\ Head(batch) \in Entry /\ Head(batch) = batch[1]
      /\ Len(batch) > 0
      /\ \A i \in 1..Len(Tail(batch)) : Tail(batch)[i] = batch[i + 1]
  BY <1>1, TailPiece
<1>4. /\ Ascending(Tail(batch)) /\ Before(Tail(batch), queue) /\ Before(inserted, Tail(batch))
      /\ UpTo(Tail(batch), offered)
  BY <1>1, <1>2, <1>3, PieceKeeps
<1>5. Len(batch) \in Nat /\ 1 \in 1..Len(batch)
  BY <1>1, <1>3
<1>6. /\ Len(Tail(batch)) <= BatchSize /\ fresh <= BatchSize - Len(Tail(batch))
      /\ fresh + 1 <= BatchSize - Len(Tail(batch)) /\ fresh + 1 \in Nat
  BY <1>1, <1>3, <1>5
<1>7. CASE InsertStored
  <2>1. /\ inserted' = Append(inserted, Head(batch)) /\ FlushGoesOn(Tail(batch), fresh + 1)
        /\ UNCHANGED <<queue, probing, checked, quick, missing, stopped, offered, tables,
                       losses>>
    BY <1>7 DEF InsertStored
  <2>2. PICK ins \in Seq(Entry) : ins = Append(inserted, Head(batch))
    BY <1>1, <1>3, AppendOne
  <2>3. /\ \A i \in 1..Len(inserted) : inserted[i] < Head(batch)
        /\ \A j \in 1..Len(queue) : Head(batch) < queue[j]
        /\ Head(batch) <= offered
    BY <1>2, <1>3, <1>5 DEF Before, UpTo
  <2>4. \A j \in 1..Len(Tail(batch)) : Head(batch) < Tail(batch)[j]
    <3> SUFFICES ASSUME NEW j \in 1..Len(Tail(batch)) PROVE batch[1] < batch[j + 1]
      BY <1>3
    <3>1. j + 1 \in 1..Len(batch) /\ 1 < j + 1
      BY <1>3, <1>5
    <3> QED
      BY <1>2, <1>5, <3>1 DEF Ascending
  <2>5. Ascending(ins) /\ UpTo(ins, offered)
    BY <1>1, <1>2, <1>3, <2>2, <2>3, AppendKeeps
  <2>6. Before(ins, Tail(batch))
    BY <1>1, <1>3, <1>4, <2>2, <2>4, AppendKeeps
  <2>7. Before(ins, queue)
    BY <1>1, <1>2, <1>3, <2>2, <2>3, AppendKeeps
  <2>8. missing' \in BOOLEAN /\ checked' \in BOOLEAN
    BY <1>0, <2>1 DEF Flags
  <2>9. inserted' = ins
    BY <2>1, <2>2
  <2> QED
    BY <1>1, <1>3, <1>4, <1>6, <2>1, <2>5, <2>6, <2>7, <2>8, <2>9, GoesOnKeeps
<1>8. CASE InsertFails
  <2>1. /\ inserted' = inserted /\ FlushGoesOn(Tail(batch), fresh)
        /\ UNCHANGED <<queue, probing, checked, quick, missing, stopped, offered, tables,
                       losses>>
    BY <1>8 DEF InsertFails
  <2>2. missing' \in BOOLEAN /\ checked' \in BOOLEAN
    BY <1>0, <2>1 DEF Flags
  <2> QED
    BY <1>1, <1>2, <1>3, <1>4, <1>6, <2>1, <2>2, GoesOnKeeps
<1>9. CASE InsertMissing
  <2>1. /\ inserted' = inserted /\ FlushGoesOn(<<>>, fresh)
        /\ UNCHANGED <<queue, probing, quick, stopped, offered, tables, losses>>
        /\ missing' \in BOOLEAN /\ checked' \in BOOLEAN
    BY <1>9 DEF InsertMissing
  <2>0. <<>> \in Seq(Entry) /\ Len(<<>>) = 0
    OBVIOUS
  <2>2. PICK rest \in Seq(Entry) : rest = <<>> /\ Len(rest) = 0
    BY <2>0
  <2>3. /\ Ascending(rest) /\ Before(rest, queue) /\ Before(inserted, rest)
        /\ UpTo(rest, offered)
    BY <2>2 DEF Ascending, Before, UpTo
  <2>4. Len(rest) <= BatchSize /\ fresh <= BatchSize - Len(rest)
    BY <1>1, <1>5, <2>2
  <2>5. FlushGoesOn(rest, fresh)
    BY <2>1, <2>2
  <2> QED
    BY <1>1, <1>2, <2>1, <2>3, <2>4, <2>5, GoesOnKeeps
<1> QED
  BY <1>7, <1>8, <1>9

-----------------------------------------------------------------------------
(* The steps that leave queue, batch and table alone *)

LEMMA AloneKeeps ==
  ASSUME AccessInv, Flags', LastNoticeFollows', ProbeAlone',
         UNCHANGED <<queue, batch, flushing, probing, fresh, offered, inserted>>
  PROVE  AccessInv'
<1>0. Core
  BY Parts
<1>1. Typed' /\ BatchOfFlush' /\ fresh' <= BatchSize - Len(batch')
  BY <1>0 DEF Core, Typed, BatchOfFlush
<1>2. InOrder'
  BY <1>0 DEF Core, InOrder, Ascending, Before, UpTo
<1> QED
  BY <1>1, <1>2, PartsNext DEF Core

LEMMA OtherKeeps ==
  ASSUME AccessInv,
         \/ NoticeFires \/ GapPasses \/ CheckDue \/ OthersFindMissing
         \/ TablesVanish \/ TablesReturn \/ UNCHANGED vars
  PROVE  AccessInv'
<1>0. Core /\ Flags /\ LastNoticeFollows
  BY Parts
<1>1. /\ UNCHANGED <<queue, batch, flushing, probing, fresh, offered, inserted>>
      /\ LastNoticeFollows' /\ (checked' = checked \/ probing = 0)
      /\ (missing' = missing \/ missing')
  BY <1>0 DEF NoticeFires, GapPasses, CheckDue, OthersFindMissing, TablesVanish,
              TablesReturn, vars, queueVars, noticeVars, LastNoticeFollows
<1>2. ProbeAlone'
  <2>1. CASE probing = 0
    BY <1>1, <2>1 DEF ProbeAlone
  <2>2. CASE probing # 0
    <3>1. /\ missing /\ checked /\ ~flushing /\ queue # <<>> /\ probing <= Head(queue)
          /\ \A i \in 1..Len(inserted) : inserted[i] < probing
      BY <1>0, <2>2 DEF Core, ProbeAlone
    <3>2. missing' /\ checked'
      BY <1>1, <2>2, <3>1
    <3>3. /\ queue' = queue /\ inserted' = inserted /\ probing' = probing
          /\ flushing' = flushing
      BY <1>1
    <3> QED
      BY <3>1, <3>2, <3>3 DEF ProbeAlone
  <2> QED
    BY <2>1, <2>2
<1>3. Flags'
  <2>1. CASE NoticeFires \/ GapPasses
    BY <1>0, <2>1 DEF NoticeFires, GapPasses, queueVars, Flags
  <2>2. CASE CheckDue \/ OthersFindMissing
    BY <1>0, <2>2 DEF CheckDue, OthersFindMissing, queueVars, noticeVars, Flags
  <2>3. CASE TablesVanish
    <3>1. losses' \in 0..MaxLosses
      BY <1>0, <2>3 DEF TablesVanish, Flags
    <3> QED
      BY <1>0, <2>3, <3>1 DEF TablesVanish, queueVars, noticeVars, Flags
  <2>4. CASE TablesReturn \/ UNCHANGED vars
    BY <1>0, <2>4 DEF TablesReturn, vars, queueVars, noticeVars, Flags
  <2> QED
    BY <2>1, <2>2, <2>3, <2>4
<1> QED
  BY <1>1, <1>2, <1>3, AloneKeeps

-----------------------------------------------------------------------------
LEMMA InitInv == Init => AccessInv
<1> SUFFICES ASSUME Init PROVE AccessInv
  OBVIOUS
<1>1. queue = <<>> /\ batch = <<>> /\ inserted = <<>> /\ <<>> \in Seq(Entry) /\ Len(<<>>) = 0
  BY DEF Init
<1>2. TypeOK /\ fresh <= BatchSize - Len(batch)
  <2>1. /\ {BatchSize, MaxQueue, MaxEntries, MaxLosses} \subseteq Nat /\ fresh = 0 /\ offered = 0
        /\ losses = MaxLosses
    BY DEF Init
  <2>2. /\ fresh \in 0..BatchSize /\ fresh <= BatchSize - Len(batch) /\ offered \in 0..MaxEntries
        /\ losses \in 0..MaxLosses /\ Len(queue) <= MaxQueue /\ Len(batch) <= BatchSize
    BY <1>1, <2>1
  <2> QED
    BY <1>1, <2>2 DEF Init, TypeOK
<1>3. InOrder
  BY <1>1 DEF InOrder, Ascending, Before, UpTo
<1>4. BatchOfFlush /\ ProbeAlone /\ LastNoticeFollows
  BY DEF Init, BatchOfFlush, ProbeAlone, LastNoticeFollows
<1> QED
  BY <1>2, <1>3, <1>4 DEF AccessInv

LEMMA StepInv == AccessInv /\ [Next]_vars => AccessInv'
<1> SUFFICES ASSUME AccessInv, [Next]_vars PROVE AccessInv'
  OBVIOUS
<1>0. Flags /\ LastNoticeFollows
  BY Parts
<1>1. CASE enqueueAccess
  BY <1>1, EnqueueKeeps
<1>2. CASE Interval
  <2>1. /\ FlushQueue(queue)
        /\ UNCHANGED <<quick, missing, noticeVars, stopped, offered, inserted, tables, losses>>
    BY <1>2 DEF Interval
  <2>2. (checked' \in BOOLEAN => Flags') /\ LastNoticeFollows'
    BY <1>0, <2>1 DEF Flags, LastNoticeFollows, noticeVars
  <2> QED
    BY <2>1, <2>2, FlushKeeps
<1>3. CASE QuickFires
  <2>1. /\ FlushQueue(queue) /\ quick' = FALSE
        /\ UNCHANGED <<missing, noticeVars, stopped, offered, inserted, tables, losses>>
    BY <1>3 DEF QuickFires
  <2>2. (checked' \in BOOLEAN => Flags') /\ LastNoticeFollows'
    BY <1>0, <2>1 DEF Flags, LastNoticeFollows, noticeVars
  <2> QED
    BY <2>1, <2>2, FlushKeeps
<1>4. CASE stop
  <2>1. /\ FlushQueue(queue) /\ stopped' = TRUE /\ quick' = FALSE /\ noticeTimer' = FALSE
        /\ UNCHANGED <<missing, pending, recent, offered, inserted, tables, losses>>
    BY <1>4 DEF stop
  <2>2. (checked' \in BOOLEAN => Flags') /\ LastNoticeFollows'
    BY <1>0, <2>1 DEF Flags, LastNoticeFollows
  <2> QED
    BY <2>1, <2>2, FlushKeeps
<1>5. CASE ProbeStored
  BY <1>5, ProbeStoredKeeps
<1>6. CASE ProbeMissing
  BY <1>6, ProbeMissingKeeps
<1>7. CASE ProbeFails
  BY <1>7, ProbeFailsKeeps
<1>8. CASE InsertStored \/ InsertFails \/ InsertMissing
  BY <1>8, InsertKeeps
<1>9. CASE \/ NoticeFires \/ GapPasses \/ CheckDue \/ OthersFindMissing
           \/ TablesVanish \/ TablesReturn \/ UNCHANGED vars
  BY <1>9, OtherKeeps
<1> QED
  BY <1>1, <1>2, <1>3, <1>4, <1>5, <1>6, <1>7, <1>8, <1>9 DEF Next

(* In every reachable state the inductive invariant holds, for any sizes of batch
   and queue (AccessLogService.js:195-260). *)
THEOREM Invariant == Spec => []AccessInv
<1>1. Init => AccessInv
  BY InitInv
<1>2. AccessInv /\ [Next]_vars => AccessInv'
  BY StepInv
<1> QED
  BY <1>1, <1>2, PTL DEF Spec

(* Entries get into the table in the order in which the requests ended and none
   twice, also when a probe of the missing tables and a flush follow each other
   (AccessLogService.js:195-260). *)
THEOREM StoredInOrder == Spec => []StoredOnceInOrder
<1>1. AccessInv => StoredOnceInOrder
  <2> SUFFICES ASSUME AccessInv
               PROVE  TypeOK /\ \A i, j \in DOMAIN inserted : i < j => inserted[i] < inserted[j]
    BY DEF StoredOnceInOrder
  <2>1. TypeOK /\ Ascending(inserted)
    BY DEF AccessInv, InOrder
  <2>2. DOMAIN inserted = 1..Len(inserted)
    BY <2>1 DEF TypeOK
  <2> QED
    BY <2>1, <2>2 DEF Ascending
<1> QED
  BY <1>1, Invariant, PTL

(* While inserted entries have not been told of, a notice is scheduled or the log
   has stopped (AccessLogService.js:138, 165). *)
THEOREM NoticesFollow == Spec => []LastNoticeFollows
<1>1. AccessInv => LastNoticeFollows
  BY DEF AccessInv
<1> QED
  BY <1>1, Invariant, PTL
=============================================================================
