--------------------------- MODULE ToolUse_proofs ---------------------------
(***************************************************************************)
(* Proofs about an agent's run and its tools, for every value of the       *)
(* constants: the pool of Python REPLs (ReplPool), the loop of model       *)
(* calls and tool batches (AgentLoop) and the pool of browser contexts     *)
(* (BrowserPool).                                                          *)
(***************************************************************************)
EXTENDS AgentLoop, ReplPool, BrowserPool, FiniteSetTheorems, SequenceTheorems, TLAPS

-----------------------------------------------------------------------------
(* ReplPool: the inductive invariant *)

ReplShapes == ReplTypeOK /\ lru \in Seq(Repls) /\ pipe \in [Repls -> Seq(ReplCalls)]

\* The manager's lock is held by the call that is in the manager.
ManagerHeld ==
    \A c \in ReplCalls :
        managerOf = c <=> replPc[c] \in {"evict", "start", "kill", "restart", "close"}

\* A pool: within its bound, of REPLs of different sessions.
PoolOf(s) ==
    /\ s \in Seq(Repls) /\ Len(s) <= MaxSessions
    /\ \A i \in 1 .. Len(s) : owner[s[i]] # "none"
    /\ \A i, k \in 1 .. Len(s) : i # k => owner[s[i]] # owner[s[k]]

\* The one that is to be added has its place.
RoomMade ==
    /\ PoolOf(lru)
    /\ \A c \in ReplCalls : replPc[c] \in {"evict", "start"} =>
         Len(lru) < MaxSessions /\ \A i \in 1 .. Len(lru) : owner[lru[i]] # SessionOf[c]

\* A call works with a REPL of its session, a reset with a managed one.
OwnRepl ==
    \A c \in ReplCalls :
        /\ replPc[c] \in {"start", "kill", "restart", "queue", "boot", "run", "stop"} =>
             using[c] \in Repls /\ owner[using[c]] = SessionOf[c]
        /\ replPc[c] \in {"kill", "restart"} => using[c] \in Range(lru)
        /\ replPc[c] \in {"boot", "run", "stop"} => holder[using[c]] = c

\* What a process has yet to answer was sent to it, once, by calls of its
\* session, and no one has read it.  Unless a call was cut off, it is the
\* one that runs.
Asked(r, d) ==
    /\ SessionOf[d] = owner[r] /\ using[d] = r
    /\ replPc[d] \in {"run", "stop", "done", "cut"}
    /\ \A x \in ReplCalls : heard[x] # d
    /\ \/ replPc[d] = "run"
       \/ \E e \in ReplCalls : replPc[e] = "cut" /\ SessionOf[e] = owner[r]

PipesFit ==
    \A r \in Repls :
        /\ ~alive[r] => pipe[r] = <<>>
        /\ \A i, k \in 1 .. Len(pipe[r]) : i # k => pipe[r][i] # pipe[r][k]
        /\ \A i \in 1 .. Len(pipe[r]) : Asked(r, pipe[r][i])

\* What was read had been sent.
HeardWasSent ==
    \A x \in ReplCalls : heard[x] # NoCall => replPc[heard[x]] \in {"run", "stop", "done", "cut"}

ReplInv ==
    ReplShapes /\ ManagerHeld /\ RoomMade /\ OwnRepl /\ PipesFit /\ HeardWasSent /\ AnswersMatch

-----------------------------------------------------------------------------
(* Lemmas about sequences *)

LEMMA TailFits ==
    ASSUME NEW S, NEW s \in Seq(S), s # <<>>
    PROVE  /\ Head(s) \in S /\ Head(s) = s[1] /\ Len(s) \in Nat \ {0}
           /\ Tail(s) \in Seq(S) /\ Len(Tail(s)) = Len(s) - 1
           /\ \A i \in 1 .. Len(Tail(s)) : Tail(s)[i] = s[i + 1]
  BY HeadTailProperties, EmptySeq

LEMMA AppendFits ==
    ASSUME NEW S, NEW s \in Seq(S), NEW x \in S
    PROVE  /\ Append(s, x) \in Seq(S) /\ Len(Append(s, x)) = Len(s) + 1
           /\ \A i \in 1 .. Len(s) : Append(s, x)[i] = s[i]
           /\ Append(s, x)[Len(s) + 1] = x
  BY AppendProperties

LEMMA RangeFits ==
    ASSUME NEW S, NEW s \in Seq(S)
    PROVE  /\ \A x \in Range(s) : x \in S /\ \E i \in 1 .. Len(s) : s[i] = x
           /\ \A i \in 1 .. Len(s) : s[i] \in Range(s)
           /\ DOMAIN s = 1 .. Len(s)
<1>1. DOMAIN s = 1 .. Len(s) /\ \A i \in 1 .. Len(s) : s[i] \in S
  BY LenProperties, ElementOfSeq
<1>2. Range(s) = {s[i] : i \in DOMAIN s}
  BY DEF Range
<1>3. PICK D : D = DOMAIN s /\ D = 1 .. Len(s)
  BY <1>1
<1>4. Range(s) = {s[i] : i \in D}
  BY <1>2, <1>3
<1>5. /\ \A x \in Range(s) : \E i \in D : s[i] = x
      /\ \A i \in D : s[i] \in Range(s)
  BY <1>4
<1> QED
  BY <1>1, <1>3, <1>5

LEMMA RemoveAtProperties ==
    ASSUME NEW S, NEW s \in Seq(S), NEW i \in 1 .. Len(s)
    PROVE  /\ RemoveAt(s, i) \in Seq(S)
           /\ Len(RemoveAt(s, i)) = Len(s) - 1
           /\ \A j \in 1 .. Len(s) - 1 : RemoveAt(s, i)[j] = IF j < i THEN s[j] ELSE s[j + 1]
<1> DEFINE front == SubSeq(s, 1, i - 1)
           rest == SubSeq(s, i + 1, Len(s))
<1>1. /\ front \in Seq(S) /\ Len(front) = i - 1
      /\ \A j \in 1 .. i - 1 : front[j] = s[j]
  BY SubSeqProperties
<1>2. /\ rest \in Seq(S) /\ Len(rest) = Len(s) - i
      /\ \A j \in 1 .. Len(s) - i : rest[j] = s[i + j]
  BY SubSeqProperties
<1>3. RemoveAt(s, i) = front \o rest
  BY DEF RemoveAt
<1> HIDE DEF front, rest
<1>4. /\ front \o rest \in Seq(S)
      /\ Len(front \o rest) = Len(front) + Len(rest)
      /\ \A j \in 1 .. Len(front) + Len(rest) :
           (front \o rest)[j] = IF j <= Len(front) THEN front[j] ELSE rest[j - Len(front)]
  BY <1>1, <1>2, ConcatProperties
<1>5. ASSUME NEW j \in 1 .. Len(s) - 1
      PROVE  (front \o rest)[j] = IF j < i THEN s[j] ELSE s[j + 1]
  <2>1. CASE j < i
    BY <2>1, <1>1, <1>2, <1>4
  <2>2. CASE ~(j < i)
    <3>1. Len(s) \in Nat /\ i \in Nat /\ j \in Nat
      OBVIOUS
    <3>2. j - (i - 1) \in 1 .. Len(s) - i /\ i + (j - (i - 1)) = j + 1
      BY <2>2, <3>1
    <3>3. rest[j - (i - 1)] = s[j + 1]
      BY <1>2, <3>2
    <3>4. j \in 1 .. Len(front) + Len(rest) /\ ~(j <= Len(front)) /\ Len(front) = i - 1
      BY <1>1, <1>2, <2>2, <3>1
    <3>5. (front \o rest)[j] = rest[j - Len(front)]
      BY <1>4, <3>4
    <3> QED
      BY <2>2, <3>3, <3>4, <3>5
  <2> QED
    BY <2>1, <2>2
<1> QED
  BY <1>1, <1>2, <1>3, <1>4, <1>5

-----------------------------------------------------------------------------
(* What happens to the pool *)

\* Taking a REPL out leaves a pool with a free place, none of its session.
LEMMA UnmanagedFits ==
    ASSUME PoolOf(lru), NEW r \in Range(lru), MaxSessions \in Nat
    PROVE  /\ PoolOf(Unmanaged(r)) /\ Len(Unmanaged(r)) < MaxSessions
           /\ \A i \in 1 .. Len(Unmanaged(r)) : owner[Unmanaged(r)[i]] # owner[r]
           /\ r \in Repls /\ owner[r] # "none"
<1>1. lru \in Seq(Repls) /\ Len(lru) \in Nat /\ DOMAIN lru = 1 .. Len(lru)
  BY LenProperties DEF PoolOf
<1>2. \E i \in DOMAIN lru : lru[i] = r
  BY <1>1, RangeFits
<1>3. PICK p : p = Place(r)
  OBVIOUS
<1>4. p \in 1 .. Len(lru) /\ lru[p] = r
  BY <1>1, <1>2, <1>3 DEF Place
<1>5. PICK u : u = Unmanaged(r)
  OBVIOUS
<1>6. u = RemoveAt(lru, p)
  BY <1>3, <1>5 DEF Unmanaged
<1>7. /\ u \in Seq(Repls) /\ Len(u) = Len(lru) - 1
      /\ \A j \in 1 .. Len(lru) - 1 : u[j] = IF j < p THEN lru[j] ELSE lru[j + 1]
  BY <1>1, <1>4, <1>6, RemoveAtProperties
<1> DEFINE At(j) == IF j < p THEN j ELSE j + 1
<1>8. ASSUME NEW j \in 1 .. Len(u)
      PROVE  At(j) \in 1 .. Len(lru) /\ At(j) # p /\ u[j] = lru[At(j)]
  <2>1. Len(u) = Len(lru) - 1 /\ Len(lru) \in Nat /\ p \in 1 .. Len(lru) /\ j \in 1 .. Len(lru) - 1
    BY <1>1, <1>4, <1>7
  <2>2. CASE j < p
    BY <1>7, <2>1, <2>2
  <2>3. CASE ~(j < p)
    BY <1>7, <2>1, <2>3
  <2> QED BY <2>2, <2>3
<1>9. ASSUME NEW j \in 1 .. Len(u), NEW k \in 1 .. Len(u), j # k PROVE At(j) # At(k)
  BY <1>1, <1>4, <1>7, <1>9
<1>10. \A j, k \in 1 .. Len(lru) : j # k => owner[lru[j]] # owner[lru[k]]
  BY DEF PoolOf
<1>11. \A j \in 1 .. Len(lru) : owner[lru[j]] # "none"
  BY DEF PoolOf
<1> HIDE DEF At
<1>12. \A j \in 1 .. Len(u) : owner[u[j]] # "none" /\ owner[u[j]] # owner[r]
  BY <1>4, <1>8, <1>10, <1>11
<1>13. \A j, k \in 1 .. Len(u) : j # k => owner[u[j]] # owner[u[k]]
  BY <1>8, <1>9, <1>10
<1>14. Len(u) < MaxSessions /\ Len(u) <= MaxSessions
  BY <1>1, <1>7 DEF PoolOf
<1>15. PoolOf(u)
  BY <1>7, <1>12, <1>13, <1>14 DEF PoolOf
<1> QED
  BY <1>1, <1>4, <1>5, <1>11, <1>12, <1>14, <1>15

\* A REPL is added at the end where there is a place for its session.
LEMMA AppendedFits ==
    ASSUME NEW s, PoolOf(s), Len(s) < MaxSessions, MaxSessions \in Nat,
           NEW r \in Repls, owner[r] # "none",
           \A i \in 1 .. Len(s) : owner[s[i]] # owner[r]
    PROVE  PoolOf(Append(s, r))
<1>1. s \in Seq(Repls) /\ Len(s) \in Nat
  BY LenProperties DEF PoolOf
<1>2. PICK a : a = Append(s, r)
  OBVIOUS
<1>3. /\ a \in Seq(Repls) /\ Len(a) = Len(s) + 1
      /\ \A i \in 1 .. Len(s) : a[i] = s[i]
      /\ a[Len(s) + 1] = r
  BY <1>1, <1>2, AppendFits
<1>4. \A i \in 1 .. Len(a) : i \in 1 .. Len(s) \/ i = Len(s) + 1
  BY <1>1, <1>3
<1>5. \A i \in 1 .. Len(a) : owner[a[i]] # "none"
  BY <1>3, <1>4 DEF PoolOf
<1>6. \A i, k \in 1 .. Len(a) : i # k => owner[a[i]] # owner[a[k]]
  BY <1>3, <1>4 DEF PoolOf
<1>7. Len(a) <= MaxSessions
  BY <1>1, <1>3
<1> QED
  BY <1>2, <1>3, <1>5, <1>6, <1>7 DEF PoolOf

LEMMA ToEndFits ==
    ASSUME PoolOf(lru), NEW r \in Range(lru), MaxSessions \in Nat
    PROVE  PoolOf(ToEnd(r))
  BY UnmanagedFits, AppendedFits DEF ToEnd

\* The oldest makes room.
LEMMA EvictedFits ==
    ASSUME PoolOf(lru), lru # <<>>, MaxSessions \in Nat
    PROVE  /\ PoolOf(Tail(lru)) /\ Len(Tail(lru)) < MaxSessions
           /\ Head(lru) \in Repls
           /\ Range(Tail(lru)) \subseteq Range(lru)
<1>1. lru \in Seq(Repls) /\ Len(lru) \in Nat
  BY LenProperties DEF PoolOf
<1>2. PICK t : t = Tail(lru)
  OBVIOUS
<1>3. /\ Head(lru) \in Repls /\ t \in Seq(Repls) /\ Len(t) = Len(lru) - 1
      /\ \A i \in 1 .. Len(t) : t[i] = lru[i + 1]
  BY <1>1, <1>2, TailFits
<1>4. ASSUME NEW i \in 1 .. Len(t) PROVE i + 1 \in 1 .. Len(lru)
  BY <1>1, <1>3
<1>5. ASSUME NEW i \in 1 .. Len(t), NEW k \in 1 .. Len(t), i # k PROVE i + 1 # k + 1
  BY <1>5
<1>6. \A i \in 1 .. Len(t) : owner[t[i]] # "none"
  BY <1>3, <1>4 DEF PoolOf
<1>7. \A i, k \in 1 .. Len(t) : i # k => owner[t[i]] # owner[t[k]]
  BY <1>3, <1>4, <1>5 DEF PoolOf
<1>8. Len(t) < MaxSessions /\ Len(t) <= MaxSessions
  BY <1>1, <1>3 DEF PoolOf
<1>9. Range(t) \subseteq Range(lru)
  <2> SUFFICES ASSUME NEW x \in Range(t) PROVE x \in Range(lru)
    OBVIOUS
  <2>1. PICK i \in 1 .. Len(t) : t[i] = x
    BY <1>3, RangeFits
  <2> QED
    BY <1>1, <1>3, <1>4, <2>1, RangeFits
<1> QED
  BY <1>2, <1>3, <1>6, <1>7, <1>8, <1>9 DEF PoolOf

\* No managed REPL is of a session that has none.
LEMMA UnmanagedSession ==
    ASSUME lru \in Seq(Repls), NEW session, Managed(session) = {}
    PROVE  \A i \in 1 .. Len(lru) : owner[lru[i]] # session
<1>1. \A i \in 1 .. Len(lru) : lru[i] \in Range(lru)
  BY RangeFits
<1> QED
  BY <1>1 DEF Managed

-----------------------------------------------------------------------------
(* What happens to the pipes *)

LEMMA ReplTypes ==
    ASSUME ReplShapes
    PROVE  /\ owner \in [Repls -> {SessionOf[c] : c \in ReplCalls} \cup {"none"}]
           /\ managerOf \in ReplCalls \cup {NoCall}
           /\ holder \in [Repls -> ReplCalls \cup {NoCall}]
           /\ alive \in [Repls -> BOOLEAN]
           /\ pipe \in [Repls -> Seq(ReplCalls)]
           /\ replPc \in [ReplCalls -> ReplPlaces]
           /\ using \in [ReplCalls -> Repls \cup {NoRepl}]
           /\ heard \in [ReplCalls -> ReplCalls \cup {NoCall}]
           /\ NoCall \notin ReplCalls /\ NoRepl \notin Repls
           /\ MaxSessions \in Nat /\ MaxSessions > 0
  BY ReplAssumption DEF ReplShapes, ReplTypeOK

\* Steps that write nothing to a process and read nothing from it: a pipe
\* stays or is emptied with its process; a call that leaves a process that
\* may still answer it has been cut off.
LEMMA PipesKeep ==
    ASSUME ReplInv, NEW c \in ReplCalls,
           replPc' \in [ReplCalls -> ReplPlaces], using' \in [ReplCalls -> Repls \cup {NoRepl}],
           owner' = owner, heard' = heard,
           \A r \in Repls : pipe'[r] = pipe[r] \/ pipe'[r] = <<>>,
           \A r \in Repls : ~alive'[r] => pipe'[r] = <<>>,
           \A d \in ReplCalls \ {c} : replPc'[d] = replPc[d] /\ using'[d] = using[d],
           replPc[c] # "cut",
           replPc[c] \in {"run", "stop", "done"} =>
             replPc'[c] \in {"stop", "done", "cut"} /\ using'[c] = using[c],
           replPc[c] = "run" => replPc'[c] = "cut" \/ pipe'[using[c]] = <<>>
    PROVE  PipesFit' /\ HeardWasSent' /\ AnswersMatch'
<1>1. \A e \in ReplCalls : replPc[e] = "cut" => replPc'[e] = "cut"
  OBVIOUS
<1>2. \A d \in ReplCalls : replPc[d] \in {"run", "stop", "done", "cut"} =>
        replPc'[d] \in {"run", "stop", "done", "cut"} /\ using'[d] = using[d]
  OBVIOUS
<1>3. AnswersMatch'
  BY <1>1 DEF ReplInv, AnswersMatch
<1>4. HeardWasSent'
  BY <1>2, ReplTypes DEF ReplInv, HeardWasSent
<1>5. ASSUME NEW r \in Repls, NEW i \in 1 .. Len(pipe[r]), pipe'[r] = pipe[r]
      PROVE  Asked(r, pipe[r][i])'
  <2>1. PICK d : d = pipe[r][i]
    OBVIOUS
  <2>2. d \in ReplCalls /\ Asked(r, d)
    BY <2>1, ReplTypes, ElementOfSeq DEF ReplInv, PipesFit
  <2>3. /\ SessionOf[d] = owner'[r] /\ using'[d] = r
        /\ replPc'[d] \in {"run", "stop", "done", "cut"}
        /\ \A x \in ReplCalls : heard'[x] # d
    BY <1>2, <2>2 DEF Asked
  <2>7. \/ replPc'[d] = "run"
        \/ \E e \in ReplCalls : replPc'[e] = "cut" /\ SessionOf[e] = owner'[r]
    <3>1. CASE replPc[d] # "run"
      BY <1>1, <2>2, <3>1 DEF Asked
    <3>2. CASE d # c /\ replPc[d] = "run"
      BY <2>2, <3>2
    <3>3. CASE d = c /\ replPc[d] = "run"
      <4>1. using[d] = r /\ 1 .. Len(pipe[r]) # {}
        BY <2>2 DEF Asked
      <4>2. pipe'[r] # <<>>
        BY <1>5, <4>1
      <4>3. replPc'[c] = "cut"
        BY <3>3, <4>1, <4>2
      <4> QED
        BY <2>2, <2>3, <3>3, <4>3
    <3> QED
      BY <3>1, <3>2, <3>3
  <2>8. \A e : e = d => /\ SessionOf[e] = owner'[r] /\ using'[e] = r
                        /\ replPc'[e] \in {"run", "stop", "done", "cut"}
                        /\ \A x \in ReplCalls : heard'[x] # e
                        /\ \/ replPc'[e] = "run"
                           \/ \E f \in ReplCalls : replPc'[f] = "cut" /\ SessionOf[f] = owner'[r]
    BY <2>3, <2>7
  <2> QED
    BY <1>5, <2>1, <2>8 DEF Asked
<1>6. ASSUME NEW r \in Repls
      PROVE  /\ ~alive'[r] => pipe'[r] = <<>>
             /\ \A i, k \in 1 .. Len(pipe'[r]) : i # k => pipe'[r][i] # pipe'[r][k]
             /\ \A i \in 1 .. Len(pipe'[r]) : Asked(r, pipe[r][i])'
  <2>1. CASE pipe'[r] = <<>>
    <3>1. 1 .. Len(pipe'[r]) = {}
      BY <2>1
    <3> QED
      BY <2>1, <3>1
  <2>2. CASE pipe'[r] = pipe[r]
    BY <1>5, <2>2 DEF ReplInv, PipesFit
  <2> QED
    BY <2>1, <2>2
<1>7. PipesFit'
  BY <1>6 DEF PipesFit
<1> QED
  BY <1>3, <1>4, <1>7

\* A call that was never sent is in no pipe and no one has read it.
LEMMA NotSent ==
    ASSUME ReplInv, NEW c \in ReplCalls, replPc[c] \notin {"run", "stop", "done", "cut"}
    PROVE  /\ \A r \in Repls : \A i \in 1 .. Len(pipe[r]) : pipe[r][i] # c
           /\ \A x \in ReplCalls : heard[x] # c
<1>1. ASSUME NEW r \in Repls, NEW i \in 1 .. Len(pipe[r]) PROVE pipe[r][i] # c
  <2>1. Asked(r, pipe[r][i])
    BY DEF ReplInv, PipesFit
  <2> QED
    BY <2>1 DEF Asked
<1>2. ASSUME NEW x \in ReplCalls PROVE heard[x] # c
  BY ReplTypes DEF ReplInv, HeardWasSent
<1> QED
  BY <1>1, <1>2

LEMMA EnterReplKeeps ==
    ASSUME ReplInv, NEW c \in ReplCalls, EnterRepl(c)
    PROVE  PipesFit' /\ HeardWasSent' /\ AnswersMatch' /\ pipe' \in [Repls -> Seq(ReplCalls)]
<1>1. PICK r : r = using[c]
  OBVIOUS
<1>2. /\ replPc[c] = "queue" /\ r \in Repls /\ owner[r] = SessionOf[c] /\ holder[r] = NoCall
      /\ holder' = [holder EXCEPT ![r] = c]
      /\ UNCHANGED <<owner, alive, using, heard>>
      /\ pipe \in [Repls -> Seq(ReplCalls)] /\ replPc \in [ReplCalls -> ReplPlaces]
  BY <1>1, ReplTypes DEF EnterRepl, ReplInv, OwnRepl
<1>3. CASE ~alive[r]
  <2>1. pipe' = pipe /\ replPc' = [replPc EXCEPT ![c] = "boot"]
    BY <1>1, <1>3 DEF EnterRepl, ReplGoes
  <2>2. \A q \in Repls : ~alive'[q] => pipe'[q] = <<>>
    BY <1>2, <2>1 DEF ReplInv, PipesFit
  <2>3. using' \in [ReplCalls -> Repls \cup {NoRepl}]
    BY <1>2, ReplTypes DEF ReplInv
  <2>4. replPc' \in [ReplCalls -> ReplPlaces] /\ \A d \in ReplCalls \ {c} : replPc'[d] = replPc[d]
    BY <1>2, <2>1 DEF ReplPlaces
  <2>5. PipesFit' /\ HeardWasSent' /\ AnswersMatch'
    BY <1>2, <2>1, <2>2, <2>3, <2>4, PipesKeep
  <2> QED
    BY <1>2, <2>1, <2>5
<1>4. CASE alive[r]
  <2>1. pipe' = [pipe EXCEPT ![r] = Append(pipe[r], c)] /\ replPc' = [replPc EXCEPT ![c] = "run"]
    BY <1>1, <1>4 DEF EnterRepl, ReplGoes
  <2>2. PICK p : p = pipe[r]
    OBVIOUS
  <2>3. PICK a : a = Append(p, c)
    OBVIOUS
  <2>4. p \in Seq(ReplCalls) /\ Len(p) \in Nat
    BY <1>2, <2>2, LenProperties
  <2>5. /\ a \in Seq(ReplCalls) /\ Len(a) = Len(p) + 1
        /\ \A i \in 1 .. Len(p) : a[i] = p[i]
        /\ a[Len(p) + 1] = c
    BY <2>3, <2>4, AppendFits
  <2>6. pipe' = [pipe EXCEPT ![r] = a] /\ pipe' \in [Repls -> Seq(ReplCalls)]
    BY <1>2, <2>1, <2>2, <2>3, <2>5
  <2>7. \A i \in 1 .. Len(a) : i \in 1 .. Len(p) \/ i = Len(p) + 1
    BY <2>4, <2>5
  <2>8. /\ \A d \in ReplCalls \ {c} : replPc'[d] = replPc[d]
        /\ replPc'[c] = "run"
    BY <1>2, <2>1
  <2>9. /\ \A i \in 1 .. Len(p) : p[i] # c
        /\ \A q \in Repls : \A i \in 1 .. Len(pipe[q]) : pipe[q][i] # c
        /\ \A x \in ReplCalls : heard[x] # c
    BY <1>2, <2>2, NotSent
  <2>10. HeardWasSent' /\ AnswersMatch'
    <3>1. HeardWasSent'
      BY <1>2, <2>8, <2>9, ReplTypes DEF HeardWasSent, ReplInv
    <3>2. AnswersMatch'
      BY <1>2, <2>8 DEF AnswersMatch, ReplInv
    <3> QED
      BY <3>1, <3>2
  <2> DEFINE Fits(q, d) ==
               /\ SessionOf[d] = owner[q] /\ using[d] = q
               /\ replPc'[d] \in {"run", "stop", "done", "cut"}
               /\ \A x \in ReplCalls : heard[x] # d
               /\ \/ replPc'[d] = "run"
                  \/ \E e \in ReplCalls : replPc'[e] = "cut" /\ SessionOf[e] = owner[q]
  <2>11. ASSUME NEW q \in Repls, NEW i \in 1 .. Len(pipe[q]) PROVE Fits(q, pipe[q][i])
    <3>1. PICK d : d = pipe[q][i]
      OBVIOUS
    <3>2. d \in ReplCalls \ {c}
      BY <1>2, <2>9, <3>1, ElementOfSeq
    <3>3. Asked(q, d)
      BY <3>1 DEF ReplInv, PipesFit
    <3>4. \A e \in ReplCalls : replPc[e] = "cut" => replPc'[e] = "cut"
      BY <1>2, <2>8
    <3>5. Fits(q, d)
      BY <2>8, <3>2, <3>3, <3>4 DEF Asked
    <3> HIDE DEF Fits
    <3> QED
      BY <3>1, <3>5
  <2>12. Fits(r, c)
    BY <1>1, <1>2, <2>8, <2>9
  <2>a. ASSUME NEW q, NEW i, Fits(q, pipe'[q][i]) PROVE Asked(q, pipe[q][i])'
    BY <1>2, <2>a DEF Asked
  <2> HIDE DEF Fits
  <2>13. \A i \in 1 .. Len(a) : Fits(r, a[i])
    BY <1>2, <2>2, <2>5, <2>7, <2>11, <2>12
  <2>14. \A i, k \in 1 .. Len(a) : i # k => a[i] # a[k]
    <3>1. \A i, k \in 1 .. Len(p) : i # k => p[i] # p[k]
      BY <1>2, <2>2 DEF ReplInv, PipesFit
    <3> QED
      BY <2>5, <2>7, <2>9, <3>1
  <2>15. ASSUME NEW q \in Repls
         PROVE  /\ ~alive[q] => pipe'[q] = <<>>
                /\ \A i, k \in 1 .. Len(pipe'[q]) : i # k => pipe'[q][i] # pipe'[q][k]
                /\ \A i \in 1 .. Len(pipe'[q]) : Fits(q, pipe'[q][i])
    <3>1. CASE q = r
      <4>1. pipe'[q] = a
        BY <1>2, <2>6, <3>1
      <4> QED
        BY <1>4, <2>13, <2>14, <3>1, <4>1
    <3>2. CASE q # r
      <4>1. pipe'[q] = pipe[q]
        BY <1>2, <2>6, <3>2
      <4>2. /\ ~alive[q] => pipe[q] = <<>>
            /\ \A i, k \in 1 .. Len(pipe[q]) : i # k => pipe[q][i] # pipe[q][k]
        BY DEF ReplInv, PipesFit
      <4> QED
        BY <2>11, <4>1, <4>2
    <3> QED
      BY <3>1, <3>2
  <2>16. PipesFit'
    BY <1>2, <2>15, <2>a DEF PipesFit
  <2> QED
    BY <2>6, <2>10, <2>16
<1> QED
  BY <1>3, <1>4

LEMMA BootedKeeps ==
    ASSUME ReplInv, NEW c \in ReplCalls, Booted(c)
    PROVE  PipesFit' /\ HeardWasSent' /\ AnswersMatch' /\ pipe' \in [Repls -> Seq(ReplCalls)]
<1>1. PICK r : r = using[c]
  OBVIOUS
<1>2. /\ replPc[c] = "boot" /\ r \in Repls /\ owner[r] = SessionOf[c] /\ using[c] = r
      /\ replPc' = [replPc EXCEPT ![c] = "run"]
      /\ alive' = [alive EXCEPT ![r] = TRUE] /\ pipe' = [pipe EXCEPT ![r] = <<c>>]
      /\ UNCHANGED <<owner, using, heard>>
      /\ pipe \in [Repls -> Seq(ReplCalls)] /\ replPc \in [ReplCalls -> ReplPlaces]
      /\ alive \in [Repls -> BOOLEAN]
  BY <1>1, ReplTypes DEF Booted, ReplInv, OwnRepl, ReplGoes
<1>3. <<c>> \in Seq(ReplCalls) /\ Len(<<c>>) = 1 /\ <<c>>[1] = c
  OBVIOUS
<1>4. PICK a : a = <<c>>
  OBVIOUS
<1>5. a \in Seq(ReplCalls) /\ Len(a) = 1 /\ a[1] = c /\ pipe' = [pipe EXCEPT ![r] = a]
  BY <1>2, <1>3, <1>4
<1>6. pipe' \in [Repls -> Seq(ReplCalls)]
  BY <1>2, <1>5
<1>7. /\ \A d \in ReplCalls \ {c} : replPc'[d] = replPc[d]
      /\ replPc'[c] = "run"
      /\ \A e \in ReplCalls : replPc[e] = "cut" => replPc'[e] = "cut"
  BY <1>2
<1>8. /\ \A q \in Repls : \A i \in 1 .. Len(pipe[q]) : pipe[q][i] # c
      /\ \A x \in ReplCalls : heard[x] # c
  BY <1>2, NotSent
<1>9. HeardWasSent'
  BY <1>2, <1>7, <1>8, ReplTypes DEF HeardWasSent, ReplInv
<1>10. AnswersMatch'
  BY <1>2, <1>7 DEF AnswersMatch, ReplInv
<1>11. \A e : e = c => /\ SessionOf[e] = owner'[r] /\ using'[e] = r
                       /\ replPc'[e] \in {"run", "stop", "done", "cut"}
                       /\ \A x \in ReplCalls : heard'[x] # e
                       /\ replPc'[e] = "run"
  BY <1>2, <1>7, <1>8
<1>12. ASSUME NEW q \in Repls, q # r
       PROVE  /\ ~alive'[q] => pipe'[q] = <<>>
              /\ \A i, k \in 1 .. Len(pipe'[q]) : i # k => pipe'[q][i] # pipe'[q][k]
              /\ \A i \in 1 .. Len(pipe'[q]) : Asked(q, pipe[q][i])'
  <2>1. pipe'[q] = pipe[q] /\ alive'[q] = alive[q]
    BY <1>2, <1>12
  <2>2. ASSUME NEW i \in 1 .. Len(pipe[q]) PROVE Asked(q, pipe[q][i])'
    <3>1. PICK d : d = pipe[q][i]
      OBVIOUS
    <3>2. d \in ReplCalls \ {c} /\ Asked(q, d)
      BY <1>2, <1>8, <3>1, ElementOfSeq DEF ReplInv, PipesFit
    <3>3. \A e : e = d => /\ SessionOf[e] = owner'[q] /\ using'[e] = q
                          /\ replPc'[e] \in {"run", "stop", "done", "cut"}
                          /\ \A x \in ReplCalls : heard'[x] # e
                          /\ \/ replPc'[e] = "run"
                             \/ \E f \in ReplCalls : replPc'[f] = "cut" /\ SessionOf[f] = owner'[q]
      BY <1>2, <1>7, <3>2 DEF Asked
    <3> QED
      BY <2>1, <3>1, <3>3 DEF Asked
  <2> QED
    BY <2>1, <2>2 DEF ReplInv, PipesFit
<1>13. /\ alive'[r]
       /\ \A i, k \in 1 .. Len(pipe'[r]) : i # k => pipe'[r][i] # pipe'[r][k]
       /\ \A i \in 1 .. Len(pipe'[r]) : Asked(r, pipe[r][i])'
  <2>1. pipe'[r] = a /\ alive'[r]
    BY <1>2, <1>5
  <2>2. 1 .. Len(pipe'[r]) = {1}
    <3>1. Len(pipe'[r]) = 1
      BY <1>5, <2>1
    <3> HIDE <2>1
    <3>2. 1 .. 1 = {1}
      OBVIOUS
    <3> QED
      BY <3>1, <3>2
  <2>3. \A i \in 1 .. Len(pipe'[r]) : i = 1 /\ pipe'[r][i] = c
    BY <1>5, <2>1, <2>2
  <2> QED
    BY <1>11, <2>1, <2>3 DEF Asked
<1>14. PipesFit'
  BY <1>12, <1>13 DEF PipesFit
<1> QED
  BY <1>6, <1>9, <1>10, <1>14

\* A new REPL has never been sent anything.
LEMMA CreatePipes ==
    ASSUME ReplInv, NEW c \in ReplCalls, Create(c)
    PROVE  PipesFit' /\ HeardWasSent' /\ AnswersMatch'
<1>1. PICK r \in Repls : /\ owner[r] = "none"
                         /\ owner' = [owner EXCEPT ![r] = SessionOf[c]]
                         /\ using' = [using EXCEPT ![c] = r]
  BY DEF Create, Unmade
<1>2. /\ replPc[c] \in {"idle", "evict"}
      /\ replPc' = [replPc EXCEPT ![c] = "start"]
      /\ UNCHANGED <<alive, pipe, heard>>
  BY DEF Create, ReplGoes
<1>3. /\ \A d \in ReplCalls \ {c} : replPc'[d] = replPc[d] /\ using'[d] = using[d]
      /\ \A d \in ReplCalls : replPc[d] = "cut" => replPc'[d] = "cut"
      /\ \A q \in Repls \ {r} : owner'[q] = owner[q]
      /\ pipe \in [Repls -> Seq(ReplCalls)]
  BY <1>1, <1>2, ReplTypes DEF ReplInv
<1>4. /\ \A q \in Repls : \A i \in 1 .. Len(pipe[q]) : pipe[q][i] # c
      /\ \A x \in ReplCalls : heard[x] # c
  BY <1>2, NotSent
<1>5. HeardWasSent'
  BY <1>2, <1>3, <1>4, ReplTypes DEF HeardWasSent, ReplInv
<1>6. AnswersMatch'
  BY <1>2, <1>3 DEF AnswersMatch, ReplInv
<1>7. ASSUME NEW q \in Repls, NEW i \in 1 .. Len(pipe[q]) PROVE Asked(q, pipe[q][i])'
  <2>1. PICK d : d = pipe[q][i]
    OBVIOUS
  <2>2. d \in ReplCalls \ {c} /\ Asked(q, d)
    BY <1>3, <1>4, <2>1, ElementOfSeq DEF ReplInv, PipesFit
  <2>3. q # r
    BY <1>1, <2>2, ReplAssumption DEF Asked
  <2>4. \A e : e = d => /\ SessionOf[e] = owner'[q] /\ using'[e] = q
                        /\ replPc'[e] \in {"run", "stop", "done", "cut"}
                        /\ \A x \in ReplCalls : heard'[x] # e
                        /\ \/ replPc'[e] = "run"
                           \/ \E f \in ReplCalls : replPc'[f] = "cut" /\ SessionOf[f] = owner'[q]
    BY <1>2, <1>3, <2>2, <2>3 DEF Asked
  <2> QED
    BY <1>2, <2>1, <2>4 DEF Asked
<1>8. PipesFit'
  BY <1>2, <1>7 DEF ReplInv, PipesFit
<1> QED
  BY <1>5, <1>6, <1>8

HearsHead(c) ==
    /\ replPc[c] = "run" /\ alive[using[c]] /\ pipe[using[c]] # <<>>
    /\ heard' = [heard EXCEPT ![c] = Head(pipe[using[c]])]
    /\ pipe' = [pipe EXCEPT ![using[c]] = Tail(@)]
    /\ replPc' = [replPc EXCEPT ![c] = "done"]
    /\ UNCHANGED <<owner, alive, using>>

\* The next answer is the reader's own, or that of a call before a cut.
LEMMA HearAnswer ==
    ASSUME ReplInv, NEW c \in ReplCalls, HearsHead(c)
    PROVE  /\ PipesFit' /\ HeardWasSent' /\ AnswersMatch' /\ pipe' \in [Repls -> Seq(ReplCalls)]
           /\ heard' \in [ReplCalls -> ReplCalls \cup {NoCall}]
<1>1. PICK r : r = using[c]
  OBVIOUS
<1>2. /\ r \in Repls /\ owner[r] = SessionOf[c] /\ holder[r] = c
      /\ pipe \in [Repls -> Seq(ReplCalls)] /\ replPc \in [ReplCalls -> ReplPlaces]
      /\ heard \in [ReplCalls -> ReplCalls \cup {NoCall}] /\ NoCall \notin ReplCalls
      /\ replPc[c] = "run" /\ UNCHANGED <<owner, alive, using>>
  BY <1>1, ReplTypes DEF ReplInv, OwnRepl, HearsHead
<1>3. PICK p : p = pipe[r]
  OBVIOUS
<1>4. PICK t : t = Tail(p)
  OBVIOUS
<1>5. p \in Seq(ReplCalls) /\ p # <<>>
  BY <1>1, <1>2, <1>3 DEF HearsHead
<1>6. /\ Head(p) \in ReplCalls /\ Head(p) = p[1] /\ Len(p) \in Nat \ {0}
      /\ t \in Seq(ReplCalls) /\ Len(t) = Len(p) - 1
      /\ \A i \in 1 .. Len(t) : t[i] = p[i + 1]
  BY <1>4, <1>5, TailFits
<1>7. PICK h \in ReplCalls : h = Head(p)
  BY <1>6
<1>8. /\ pipe' = [pipe EXCEPT ![r] = t] /\ heard' = [heard EXCEPT ![c] = h]
      /\ pipe' \in [Repls -> Seq(ReplCalls)]
      /\ heard' \in [ReplCalls -> ReplCalls \cup {NoCall}]
      /\ pipe'[r] = t /\ \A q \in Repls \ {r} : pipe'[q] = pipe[q]
      /\ heard'[c] = h /\ \A d \in ReplCalls \ {c} : heard'[d] = heard[d]
  BY <1>1, <1>2, <1>3, <1>4, <1>6, <1>7 DEF HearsHead
<1>9. /\ \A d \in ReplCalls \ {c} : replPc'[d] = replPc[d]
      /\ replPc'[c] = "done"
      /\ \A e \in ReplCalls : replPc[e] = "cut" => replPc'[e] = "cut"
  BY <1>2 DEF HearsHead
<1>10. Asked(r, h) /\ 1 \in 1 .. Len(p) /\ h = p[1]
  BY <1>2, <1>3, <1>6, <1>7 DEF ReplInv, PipesFit
<1>11. HeardWasSent'
  BY <1>2, <1>8, <1>9, <1>10 DEF ReplInv, HeardWasSent, Asked
<1>12. h # c => \E e \in ReplCalls : replPc[e] = "cut" /\ SessionOf[e] = SessionOf[c]
  <2>1. ASSUME h # c, replPc[h] = "run" PROVE FALSE
    <3>1. using[h] = r /\ holder[using[h]] = h
      BY <1>10, <2>1 DEF Asked, ReplInv, OwnRepl
    <3> QED
      BY <1>2, <2>1, <3>1
  <2> QED
    BY <1>2, <1>10, <2>1 DEF Asked
<1>13. AnswersMatch'
  <2>1. ASSUME NEW x \in ReplCalls, heard'[x] # NoCall
        PROVE  /\ heard'[x] # x =>
                    \E d \in ReplCalls : replPc'[d] = "cut" /\ SessionOf[d] = SessionOf[x]
               /\ SessionOf[heard'[x]] = SessionOf[x]
               /\ \A d \in ReplCalls \ {x} : heard'[d] # heard'[x]
    <3>1. CASE x = c
      BY <1>2, <1>8, <1>9, <1>10, <1>12, <3>1 DEF Asked
    <3>2. CASE x # c
      <4>1. heard'[x] = heard[x] /\ heard[x] # h
        BY <1>8, <1>10, <3>2 DEF Asked
      <4> QED
        BY <1>8, <1>9, <2>1, <3>2, <4>1 DEF AnswersMatch, ReplInv
    <3> QED
      BY <3>1, <3>2
  <2> QED
    BY <2>1 DEF AnswersMatch
\* Of the answers that are left none is the reader's own, unless it was cut.
<1> DEFINE Next(q, e) ==
             /\ SessionOf[e] = owner'[q] /\ using'[e] = q
             /\ replPc'[e] \in {"run", "stop", "done", "cut"}
             /\ \A x \in ReplCalls : heard'[x] # e
             /\ \/ replPc'[e] = "run"
                \/ \E f \in ReplCalls : replPc'[f] = "cut" /\ SessionOf[f] = owner'[q]
<1>14. ASSUME NEW q \in Repls, NEW d \in ReplCalls, Asked(q, d), d # h
       PROVE  Next(q, d)
  <2>1. SessionOf[d] = owner'[q] /\ using'[d] = q /\ replPc'[d] \in {"run", "stop", "done", "cut"}
    BY <1>2, <1>9, <1>14 DEF Asked
  <2>2. \A x \in ReplCalls : heard'[x] # d
    BY <1>8, <1>14 DEF Asked
  <2>3. CASE d # c
    BY <1>9, <1>14, <2>1, <2>2, <2>3 DEF Asked
  <2>4. CASE d = c
    <3>1. h # c /\ q = r /\ SessionOf[c] = owner'[q]
      BY <1>1, <1>2, <1>14, <2>4 DEF Asked
    <3> QED
      BY <1>9, <1>12, <2>1, <2>2, <2>4, <3>1
  <2> QED
    BY <2>3, <2>4
<1>15. ASSUME NEW q, NEW i, Next(q, pipe'[q][i]) PROVE Asked(q, pipe[q][i])'
  BY <1>15 DEF Asked
<1> HIDE DEF Next
<1>16. ASSUME NEW q \in Repls
       PROVE  /\ ~alive'[q] => pipe'[q] = <<>>
              /\ \A i, k \in 1 .. Len(pipe'[q]) : i # k => pipe'[q][i] # pipe'[q][k]
              /\ \A i \in 1 .. Len(pipe'[q]) : Next(q, pipe'[q][i])
  <2>1. CASE q = r
    <3>1. alive'[q] /\ pipe'[q] = t
      BY <1>1, <1>2, <1>8, <2>1 DEF HearsHead
    <3>2. \A i \in 1 .. Len(t) : i + 1 \in 1 .. Len(p) /\ i + 1 # 1
      BY <1>6
    <3>3. \A i, k \in 1 .. Len(p) : i # k => p[i] # p[k]
      BY <1>2, <1>3 DEF ReplInv, PipesFit
    <3>4. \A i, k \in 1 .. Len(t) : i # k => t[i] # t[k]
      <4> SUFFICES ASSUME NEW i \in 1 .. Len(t), NEW k \in 1 .. Len(t), i # k
                   PROVE  t[i] # t[k]
        OBVIOUS
      <4>1. PICK j, l : j = i + 1 /\ l = k + 1 /\ j # l
        OBVIOUS
      <4>2. j \in 1 .. Len(p) /\ l \in 1 .. Len(p) /\ t[i] = p[j] /\ t[k] = p[l]
        BY <1>6, <3>2, <4>1
      <4> QED
        BY <3>3, <4>1, <4>2
    <3>5. ASSUME NEW i \in 1 .. Len(t) PROVE Next(q, pipe'[q][i])
      <4>1. PICK d : d = t[i]
        OBVIOUS
      <4>2. d \in ReplCalls /\ d = p[i + 1]
        BY <1>6, <4>1, ElementOfSeq
      <4>3. d # h /\ Asked(q, d)
        BY <1>2, <1>3, <1>10, <2>1, <3>2, <3>3, <4>2 DEF ReplInv, PipesFit
      <4>4. Next(q, d)
        BY <1>14, <4>2, <4>3
      <4> QED
        BY <3>1, <4>1, <4>4
    <3>6. \A i \in 1 .. Len(pipe'[q]) : Next(q, pipe'[q][i])
      BY <3>1, <3>5
    <3>7. \A i, k \in 1 .. Len(pipe'[q]) : i # k => pipe'[q][i] # pipe'[q][k]
      BY <3>1, <3>4
    <3>8. alive'[q] \/ pipe'[q] = <<>>
      BY <3>1
    <3> QED
      BY <3>6, <3>7, <3>8
  <2>2. CASE q # r
    <3>1. pipe'[q] = pipe[q] /\ alive'[q] = alive[q]
      BY <1>2, <1>8, <2>2
    <3>2. ASSUME NEW i \in 1 .. Len(pipe[q]) PROVE Next(q, pipe'[q][i])
      <4>1. PICK d : d = pipe[q][i]
        OBVIOUS
      <4>2. d \in ReplCalls /\ Asked(q, d)
        BY <1>2, <4>1, ElementOfSeq DEF ReplInv, PipesFit
      <4>3. d # h
        BY <1>10, <2>2, <4>2 DEF Asked
      <4>4. Next(q, d)
        BY <1>14, <4>2, <4>3
      <4> QED
        BY <3>1, <4>1, <4>4
    <3>3. \A i \in 1 .. Len(pipe'[q]) : Next(q, pipe'[q][i])
      BY <3>1, <3>2
    <3>4. /\ ~alive[q] => pipe[q] = <<>>
          /\ \A i, k \in 1 .. Len(pipe[q]) : i # k => pipe[q][i] # pipe[q][k]
      BY DEF ReplInv, PipesFit
    <3>5. ~alive'[q] => pipe'[q] = <<>>
      BY <3>1, <3>4
    <3>6. \A i, k \in 1 .. Len(pipe'[q]) : i # k => pipe'[q][i] # pipe'[q][k]
      BY <3>1, <3>4
    <3> QED
      BY <3>3, <3>5, <3>6
  <2> QED
    BY <2>1, <2>2
<1>17. PipesFit'
  BY <1>15, <1>16 DEF PipesFit
<1> QED
  BY <1>8, <1>11, <1>13, <1>17

-----------------------------------------------------------------------------
(* What happens to the locks, the pool and the calls *)

TypesNext ==
    /\ managerOf' \in ReplCalls \cup {NoCall}
    /\ holder' \in [Repls -> ReplCalls \cup {NoCall}]
    /\ alive' \in [Repls -> BOOLEAN]
    /\ pipe' \in [Repls -> Seq(ReplCalls)]
    /\ replPc' \in [ReplCalls -> ReplPlaces]
    /\ using' \in [ReplCalls -> Repls \cup {NoRepl}]
    /\ heard' \in [ReplCalls -> ReplCalls \cup {NoCall}]

\* The others go on where they are and hold what they held ...
OthersStay(c) ==
    /\ \A d \in ReplCalls \ {c} : replPc'[d] = replPc[d] /\ using'[d] = using[d]
    /\ \A d \in ReplCalls \ {c} : managerOf' = d <=> managerOf = d
    /\ \A d \in ReplCalls \ {c} :
         replPc[d] \in {"boot", "run", "stop"} => holder'[using[d]] = d

\* ... and the one that steps is where it may be.
PlacedWell(c) ==
    /\ managerOf' = c <=> replPc'[c] \in {"evict", "start", "kill", "restart", "close"}
    /\ replPc'[c] \in {"evict", "start"} =>
         Len(lru') < MaxSessions /\ \A i \in 1 .. Len(lru') : owner'[lru'[i]] # SessionOf[c]
    /\ replPc'[c] \in {"start", "kill", "restart", "queue", "boot", "run", "stop"} =>
         using'[c] \in Repls /\ owner'[using'[c]] = SessionOf[c]
    /\ replPc'[c] \in {"kill", "restart"} => using'[c] \in Range(lru')
    /\ replPc'[c] \in {"boot", "run", "stop"} => holder'[using'[c]] = c

ControlStep(c) ==
    /\ TypesNext /\ owner' \in [Repls -> {SessionOf[d] : d \in ReplCalls} \cup {"none"}]
    /\ PoolOf(lru)' /\ OthersStay(c) /\ PlacedWell(c)
    /\ \A r \in Repls : owner[r] # "none" => owner'[r] = owner[r]
    /\ (lru' = lru /\ owner' = owner) \/ managerOf \in {NoCall, c}

LEMMA ControlKeeps ==
    ASSUME ReplInv, NEW c \in ReplCalls, ControlStep(c)
    PROVE  ReplShapes' /\ ManagerHeld' /\ RoomMade' /\ OwnRepl'
<1>1. ReplShapes'
  <2>1. lru' \in Seq(Repls) /\ pipe' \in [Repls -> Seq(ReplCalls)]
    BY DEF ControlStep, TypesNext, PoolOf
  <2>2. Range(lru') \subseteq Repls
    BY <2>1, RangeFits
  <2>3. \A r \in Repls : Range(pipe'[r]) \subseteq ReplCalls
    BY <2>1, RangeFits
  <2>4. ReplTypeOK'
    BY <2>2, <2>3 DEF ControlStep, TypesNext, ReplTypeOK
  <2> QED
    BY <2>1, <2>4 DEF ReplShapes
<1>2. ManagerHeld'
  BY DEF ControlStep, OthersStay, PlacedWell, ManagerHeld, ReplInv
<1>3. NoCall \notin ReplCalls
  BY ReplAssumption
<1>4. ASSUME NEW d \in ReplCalls \ {c}, replPc[d] \in {"evict", "start", "kill", "restart", "close"}
      PROVE  lru' = lru /\ owner' = owner
  BY <1>3, <1>4 DEF ReplInv, ManagerHeld, ControlStep
<1>5. RoomMade'
  <2>1. ASSUME NEW d \in ReplCalls, replPc'[d] \in {"evict", "start"}
        PROVE  Len(lru') < MaxSessions /\ \A i \in 1 .. Len(lru') : owner'[lru'[i]] # SessionOf[d]
    <3>1. CASE d = c
      BY <2>1, <3>1 DEF ControlStep, PlacedWell
    <3>2. CASE d # c
      <4>1. replPc[d] \in {"evict", "start"}
        BY <2>1, <3>2 DEF ControlStep, OthersStay
      <4>2. lru' = lru /\ owner' = owner
        BY <1>4, <3>2, <4>1
      <4> QED
        BY <4>1, <4>2 DEF ReplInv, RoomMade
    <3> QED
      BY <3>1, <3>2
  <2> QED
    BY <2>1 DEF RoomMade, ControlStep
<1>6. OwnRepl'
  <2>1. ASSUME NEW d \in ReplCalls
        PROVE  /\ replPc'[d] \in {"start", "kill", "restart", "queue", "boot", "run", "stop"} =>
                    using'[d] \in Repls /\ owner'[using'[d]] = SessionOf[d]
               /\ replPc'[d] \in {"kill", "restart"} => using'[d] \in Range(lru')
               /\ replPc'[d] \in {"boot", "run", "stop"} => holder'[using'[d]] = d
    <3>1. CASE d = c
      BY <3>1 DEF ControlStep, PlacedWell
    <3>2. CASE d # c
      <4>1. replPc'[d] = replPc[d] /\ using'[d] = using[d]
        BY <3>2 DEF ControlStep, OthersStay
      <4>2. replPc[d] \in {"start", "kill", "restart", "queue", "boot", "run", "stop"} =>
              using[d] \in Repls /\ owner'[using[d]] = SessionOf[d]
        BY ReplAssumption DEF ReplInv, OwnRepl, ControlStep
      <4>3. replPc[d] \in {"kill", "restart"} => using[d] \in Range(lru')
        BY <1>4, <3>2 DEF ReplInv, OwnRepl
      <4>4. replPc[d] \in {"boot", "run", "stop"} => holder'[using[d]] = d
        BY <3>2 DEF ControlStep, OthersStay
      <4> QED
        BY <4>1, <4>2, <4>3, <4>4
    <3> QED
      BY <3>1, <3>2
  <2> QED
    BY <2>1 DEF OwnRepl
<1> QED
  BY <1>1, <1>2, <1>5, <1>6

-----------------------------------------------------------------------------
(* The steps *)

\* Killing or starting a process leaves its pipe empty.
PipesStay ==
    /\ alive' \in [Repls -> BOOLEAN] /\ pipe' \in [Repls -> Seq(ReplCalls)]
    /\ \A r \in Repls : pipe'[r] = pipe[r] \/ pipe'[r] = <<>>
    /\ \A r \in Repls : ~alive'[r] => pipe'[r] = <<>>

LEMMA Emptied ==
    ASSUME ReplInv, NEW r \in Repls, Kill(r) \/ Boot(r)
    PROVE  PipesStay /\ pipe'[r] = <<>>
<1>1. /\ alive \in [Repls -> BOOLEAN] /\ pipe \in [Repls -> Seq(ReplCalls)]
      /\ \A q \in Repls : ~alive[q] => pipe[q] = <<>>
  BY ReplTypes DEF ReplInv, PipesFit
<1>2. PICK e : e = <<>> /\ e \in Seq(ReplCalls)
  BY EmptySeq
<1>3. /\ pipe' = [pipe EXCEPT ![r] = e]
      /\ alive' = [alive EXCEPT ![r] = FALSE] \/ alive' = [alive EXCEPT ![r] = TRUE]
  BY <1>2 DEF Kill, Boot
<1>4. pipe' \in [Repls -> Seq(ReplCalls)] /\ alive' \in [Repls -> BOOLEAN]
  BY <1>1, <1>2, <1>3
<1>5. pipe'[r] = e /\ \A q \in Repls \ {r} : pipe'[q] = pipe[q] /\ alive'[q] = alive[q]
  BY <1>1, <1>3
<1> QED
  BY <1>1, <1>2, <1>4, <1>5 DEF PipesStay

LEMMA Untouched ==
    ASSUME ReplInv, UNCHANGED <<alive, pipe>>
    PROVE  PipesStay
  BY ReplTypes DEF PipesStay, ReplInv, PipesFit

\* What a step needs to know of a call that works with a REPL.
LEMMA AtWork ==
    ASSUME ReplInv, NEW c \in ReplCalls
    PROVE  /\ replPc[c] \in {"start", "kill", "restart", "queue", "boot", "run", "stop"} =>
                using[c] \in Repls /\ owner[using[c]] = SessionOf[c]
           /\ replPc[c] \in {"kill", "restart"} => using[c] \in Range(lru)
           /\ replPc[c] \in {"boot", "run", "stop"} => holder[using[c]] = c
           /\ managerOf = c <=> replPc[c] \in {"evict", "start", "kill", "restart", "close"}
  BY DEF ReplInv, OwnRepl, ManagerHeld

\* A step that takes nothing from the pipes and leaves the locks of REPLs.
ManagerStep(c) ==
    /\ PipesStay /\ UNCHANGED <<owner, holder, heard>>
    /\ managerOf \in {NoCall, c} /\ managerOf' \in {NoCall, c}
    /\ \E pc \in ReplPlaces \ {"boot", "run", "stop"} : replPc' = [replPc EXCEPT ![c] = pc]
    /\ \E r \in Repls \cup {NoRepl} : using' = [using EXCEPT ![c] = r]
    /\ replPc[c] \notin {"run", "stop", "done", "cut"}
    /\ PoolOf(lru') /\ PlacedWell(c)

LEMMA ManagerStepKeeps ==
    ASSUME ReplInv, NEW c \in ReplCalls, ManagerStep(c)
    PROVE  ReplInv'
<1>1. TypesNext
  BY ReplTypes DEF ReplInv, TypesNext, ManagerStep, PipesStay
<1>2. OthersStay(c)
  <2>1. \A d \in ReplCalls \ {c} : replPc'[d] = replPc[d] /\ using'[d] = using[d]
    BY ReplTypes DEF ReplInv, ManagerStep
  <2>2. \A d \in ReplCalls \ {c} : managerOf' = d <=> managerOf = d
    BY ReplTypes DEF ReplInv, ManagerStep
  <2>3. \A d \in ReplCalls \ {c} : replPc[d] \in {"boot", "run", "stop"} => holder'[using[d]] = d
    BY DEF ReplInv, OwnRepl, ManagerStep
  <2> QED
    BY <2>1, <2>2, <2>3 DEF OthersStay
<1>3. PoolOf(lru)'
  BY DEF ManagerStep, PoolOf
<1>4. ControlStep(c)
  BY <1>1, <1>2, <1>3, ReplTypes DEF ControlStep, ManagerStep, ReplInv
<1>5. PipesFit' /\ HeardWasSent' /\ AnswersMatch'
  <2>1. /\ \A r \in Repls : pipe'[r] = pipe[r] \/ pipe'[r] = <<>>
        /\ \A r \in Repls : ~alive'[r] => pipe'[r] = <<>>
        /\ replPc[c] \notin {"run", "stop", "done", "cut"}
        /\ owner' = owner /\ heard' = heard
    BY DEF ManagerStep, PipesStay
  <2>2. replPc' \in [ReplCalls -> ReplPlaces] /\ using' \in [ReplCalls -> Repls \cup {NoRepl}]
    BY <1>1 DEF TypesNext
  <2>3. \A d \in ReplCalls \ {c} : replPc'[d] = replPc[d] /\ using'[d] = using[d]
    BY <1>2 DEF OthersStay
  <2> QED
    BY <2>1, <2>2, <2>3, PipesKeep
<1> QED
  BY <1>4, <1>5, ControlKeeps DEF ReplInv

LEMMA FindKeeps ==
    ASSUME ReplInv, NEW c \in ReplCalls, Find(c)
    PROVE  ReplInv'
<1>1. PICK r \in Managed(SessionOf[c]) : lru' = ToEnd(r) /\ using' = [using EXCEPT ![c] = r]
  BY DEF Find
<1>2. PoolOf(lru) /\ r \in Range(lru) /\ owner[r] = SessionOf[c] /\ MaxSessions \in Nat
  BY ReplTypes DEF Managed, ReplInv, RoomMade
<1>3. PoolOf(lru') /\ r \in Repls
  BY <1>1, <1>2, ToEndFits, UnmanagedFits
<1>4. /\ replPc[c] = "idle" /\ managerOf = NoCall /\ managerOf' = NoCall
      /\ replPc' = [replPc EXCEPT ![c] = "queue"] /\ "queue" \in ReplPlaces \ {"boot", "run", "stop"}
      /\ UNCHANGED <<owner, holder, alive, pipe, heard>>
  BY DEF Find, ReplGoes, ReplPlaces
<1>5. PlacedWell(c)
  BY <1>1, <1>2, <1>3, <1>4, ReplTypes DEF PlacedWell, ReplInv
<1>6. PipesStay
  BY <1>4, Untouched
<1> QED
  BY <1>1, <1>3, <1>4, <1>5, <1>6, ManagerStepKeeps DEF ManagerStep

LEMMA EvictKeeps ==
    ASSUME ReplInv, NEW c \in ReplCalls, Evict(c)
    PROVE  ReplInv'
<1>1. PoolOf(lru) /\ lru \in Seq(Repls) /\ MaxSessions \in Nat /\ MaxSessions > 0
  BY ReplTypes DEF ReplInv, RoomMade, ReplShapes
<1>2. /\ replPc[c] = "idle" /\ managerOf = NoCall /\ managerOf' = c
      /\ replPc' = [replPc EXCEPT ![c] = "evict"] /\ "evict" \in ReplPlaces \ {"boot", "run", "stop"}
      /\ Managed(SessionOf[c]) = {} /\ Len(lru) >= MaxSessions
      /\ UNCHANGED <<owner, holder, heard>>
      /\ using' = [using EXCEPT ![c] = Head(lru)] /\ Kill(Head(lru)) /\ lru' = Tail(lru)
  BY DEF Evict, ReplGoes, ReplPlaces
<1>3. lru # <<>>
  <2>1. lru = <<>> => Len(lru) = 0
    OBVIOUS
  <2> QED
    BY <1>1, <1>2, <2>1
<1>4. /\ PoolOf(lru') /\ Len(lru') < MaxSessions
      /\ Head(lru) \in Repls /\ Range(lru') \subseteq Range(lru)
  BY <1>1, <1>2, <1>3, EvictedFits
<1>5. \A i \in 1 .. Len(lru') : owner[lru'[i]] # SessionOf[c]
  <2>1. lru' \in Seq(Repls)
    BY <1>4 DEF PoolOf
  <2> QED
    BY <1>2, <1>4, <2>1, RangeFits DEF Managed
<1>6. PlacedWell(c)
  BY <1>2, <1>4, <1>5, ReplTypes DEF PlacedWell, ReplInv
<1>7. PipesStay
  BY <1>2, <1>4, Emptied
<1> QED
  BY <1>2, <1>4, <1>6, <1>7, ManagerStepKeeps DEF ManagerStep

LEMMA StartedKeeps ==
    ASSUME ReplInv, NEW c \in ReplCalls, Started(c)
    PROVE  ReplInv'
<1>1. /\ PoolOf(lru) /\ MaxSessions \in Nat /\ replPc[c] = "start" /\ managerOf = c
      /\ using[c] \in Repls /\ owner[using[c]] = SessionOf[c] /\ SessionOf[c] # "none"
      /\ Len(lru) < MaxSessions /\ \A i \in 1 .. Len(lru) : owner[lru[i]] # SessionOf[c]
  BY AtWork, ReplTypes, ReplAssumption DEF Started, ReplInv, RoomMade
<1>2. /\ managerOf' = NoCall /\ UNCHANGED <<owner, holder, using, heard>>
      /\ using' = [using EXCEPT ![c] = using[c]]
      /\ {"queue", "done"} \subseteq ReplPlaces \ {"boot", "run", "stop"}
  BY ReplTypes DEF Started, ReplPlaces, ReplInv
<1>3. CASE /\ Boot(using[c]) /\ lru' = Append(lru, using[c])
           /\ replPc' = [replPc EXCEPT ![c] = "queue"]
  <2>1. PoolOf(lru')
    BY <1>1, <1>3, AppendedFits
  <2>2. PipesStay
    BY <1>1, <1>3, Emptied
  <2>3. PlacedWell(c)
    BY <1>1, <1>2, <1>3, ReplTypes DEF PlacedWell, ReplInv
  <2> QED
    BY <1>1, <1>2, <1>3, <2>1, <2>2, <2>3, ManagerStepKeeps DEF ManagerStep
<1>4. CASE replPc' = [replPc EXCEPT ![c] = "done"] /\ UNCHANGED <<lru, alive, pipe>>
  <2>1. PlacedWell(c)
    BY <1>1, <1>2, <1>4, ReplTypes DEF PlacedWell, ReplInv
  <2> QED
    BY <1>1, <1>2, <1>4, <2>1, Untouched, ManagerStepKeeps DEF ManagerStep
<1> QED
  BY <1>3, <1>4 DEF Started, ReplGoes

LEMMA StartResetKeeps ==
    ASSUME ReplInv, NEW c \in ReplCalls, StartReset(c)
    PROVE  ReplInv'
<1>1. /\ PoolOf(lru) /\ lru \in Seq(Repls)
      /\ replPc[c] = "idle" /\ managerOf = NoCall /\ UNCHANGED <<lru, owner, holder, heard>>
      /\ {"kill", "done"} \subseteq ReplPlaces \ {"boot", "run", "stop"}
  BY DEF StartReset, ReplPlaces, ReplInv, RoomMade, ReplShapes
<1>2. CASE /\ replPc' = [replPc EXCEPT ![c] = "done"]
           /\ UNCHANGED <<managerOf, using, alive, pipe>>
  <2>1. PlacedWell(c) /\ using' = [using EXCEPT ![c] = using[c]] /\ using[c] \in Repls \cup {NoRepl}
    BY <1>1, <1>2, ReplTypes DEF PlacedWell, ReplInv
  <2> QED
    BY <1>1, <1>2, <2>1, Untouched, ManagerStepKeeps DEF ManagerStep
<1>3. CASE \E r \in Managed(SessionOf[c]) :
             /\ managerOf' = c /\ using' = [using EXCEPT ![c] = r] /\ Kill(r)
             /\ replPc' = [replPc EXCEPT ![c] = "kill"]
  <2>1. PICK r \in Managed(SessionOf[c]) :
             /\ managerOf' = c /\ using' = [using EXCEPT ![c] = r] /\ Kill(r)
             /\ replPc' = [replPc EXCEPT ![c] = "kill"]
    BY <1>3
  <2>2. r \in Range(lru) /\ r \in Repls /\ owner[r] = SessionOf[c]
    BY <1>1, RangeFits DEF Managed
  <2>3. PlacedWell(c)
    BY <1>1, <2>1, <2>2, ReplTypes DEF PlacedWell, ReplInv
  <2> QED
    BY <1>1, <2>1, <2>2, <2>3, Emptied, ManagerStepKeeps DEF ManagerStep
<1> QED
  BY <1>2, <1>3 DEF StartReset, ReplGoes

LEMMA ResetKeeps ==
    ASSUME ReplInv, NEW c \in ReplCalls, ResetKilled(c) \/ ResetDone(c)
    PROVE  ReplInv'
<1>1. /\ PoolOf(lru) /\ MaxSessions \in Nat /\ replPc[c] \in {"kill", "restart"}
      /\ managerOf = c /\ using[c] \in Repls /\ owner[using[c]] = SessionOf[c]
      /\ using[c] \in Range(lru)
      /\ UNCHANGED <<owner, holder, using, heard>>
      /\ using' = [using EXCEPT ![c] = using[c]]
      /\ {"restart", "done"} \subseteq ReplPlaces \ {"boot", "run", "stop"}
  BY AtWork, ReplTypes DEF ResetKilled, ResetDone, ReplPlaces, ReplInv, RoomMade
<1>2. CASE /\ replPc' = [replPc EXCEPT ![c] = "done"] /\ managerOf' = NoCall
           /\ lru' = ToEnd(using[c])
           /\ UNCHANGED <<alive, pipe>> \/ Boot(using[c])
  <2>1. PoolOf(ToEnd(using[c]))
    BY <1>1, ToEndFits
  <2>2. PipesStay
    BY <1>1, <1>2, Untouched, Emptied
  <2>3. PlacedWell(c)
    BY <1>1, <1>2, ReplTypes DEF PlacedWell, ReplInv
  <2> QED
    BY <1>1, <1>2, <2>1, <2>2, <2>3, ManagerStepKeeps DEF ManagerStep
<1>3. CASE replPc' = [replPc EXCEPT ![c] = "restart"] /\ UNCHANGED <<managerOf, lru, alive, pipe>>
  <2>1. PlacedWell(c)
    BY <1>1, <1>3, ReplTypes DEF PlacedWell, ReplInv
  <2> QED
    BY <1>1, <1>3, <2>1, Untouched, ManagerStepKeeps DEF ManagerStep
<1> QED
  BY <1>2, <1>3 DEF ResetKilled, ResetDone, ReplGoes

LEMMA CloseKeeps ==
    ASSUME ReplInv, NEW c \in ReplCalls, StartClose(c) \/ CloseDone(c)
    PROVE  ReplInv'
<1>1. /\ PoolOf(lru) /\ lru \in Seq(Repls) /\ MaxSessions \in Nat
      /\ replPc[c] \in {"idle", "close"} /\ managerOf \in {NoCall, c}
      /\ UNCHANGED <<owner, holder, heard>>
      /\ {"close", "done"} \subseteq ReplPlaces \ {"boot", "run", "stop"}
      /\ using[c] \in Repls \cup {NoRepl} /\ using = [using EXCEPT ![c] = using[c]]
  BY AtWork, ReplTypes DEF StartClose, CloseDone, ReplPlaces, ReplInv, RoomMade, ReplShapes
<1>2. CASE /\ replPc' = [replPc EXCEPT ![c] = "done"] /\ managerOf' = NoCall
           /\ UNCHANGED <<lru, using, alive, pipe>>
  <2>1. PlacedWell(c)
    BY <1>1, <1>2, ReplTypes DEF PlacedWell, ReplInv
  <2> QED
    BY <1>1, <1>2, <2>1, Untouched, ManagerStepKeeps DEF ManagerStep
<1>3. CASE \E r \in Managed(SessionOf[c]) :
             /\ managerOf' = c /\ using' = [using EXCEPT ![c] = r]
             /\ lru' = Unmanaged(r) /\ Kill(r)
             /\ replPc' = [replPc EXCEPT ![c] = "close"] /\ replPc[c] = "idle"
  <2>1. PICK r \in Managed(SessionOf[c]) :
             /\ managerOf' = c /\ using' = [using EXCEPT ![c] = r]
             /\ lru' = Unmanaged(r) /\ Kill(r)
             /\ replPc' = [replPc EXCEPT ![c] = "close"] /\ replPc[c] = "idle"
    BY <1>3
  <2>2. r \in Range(lru) /\ r \in Repls
    BY <1>1, RangeFits DEF Managed
  <2>3. PoolOf(lru') /\ PipesStay
    BY <1>1, <2>1, <2>2, UnmanagedFits, Emptied
  <2>4. PlacedWell(c)
    BY <1>1, <2>1, <2>2, ReplTypes DEF PlacedWell, ReplInv
  <2> QED
    BY <1>1, <2>1, <2>2, <2>3, <2>4, ManagerStepKeeps DEF ManagerStep
<1> QED
  BY <1>2, <1>3 DEF StartClose, CloseDone, ReplGoes

LEMMA CreateKeeps ==
    ASSUME ReplInv, NEW c \in ReplCalls, Create(c)
    PROVE  ReplInv'
<1>1. PICK r \in Repls : /\ owner[r] = "none"
                         /\ owner' = [owner EXCEPT ![r] = SessionOf[c]]
                         /\ using' = [using EXCEPT ![c] = r]
  BY DEF Create, Unmade
<1>2. /\ replPc[c] \in {"idle", "evict"} /\ managerOf \in {NoCall, c} /\ managerOf' = c
      /\ replPc' = [replPc EXCEPT ![c] = "start"]
      /\ UNCHANGED <<lru, holder, alive, pipe, heard>>
  BY AtWork DEF Create, ReplGoes
<1>3. /\ PoolOf(lru) /\ lru \in Seq(Repls) /\ Len(lru) < MaxSessions
      /\ \A i \in 1 .. Len(lru) : lru[i] \in Repls /\ owner[lru[i]] # SessionOf[c]
  <2>1. PoolOf(lru) /\ lru \in Seq(Repls)
    BY DEF ReplInv, RoomMade, ReplShapes
  <2>2. CASE replPc[c] = "evict"
    BY <2>1, <2>2, RangeFits, ElementOfSeq DEF ReplInv, RoomMade
  <2>3. CASE replPc[c] # "evict"
    BY <2>1, <2>3, UnmanagedSession, ElementOfSeq DEF Create
  <2> QED
    BY <2>2, <2>3
<1>4. \A i \in 1 .. Len(lru) : lru[i] # r /\ owner'[lru[i]] = owner[lru[i]]
  BY <1>1, <1>3, ReplTypes DEF PoolOf, ReplInv
<1>5. /\ TypesNext /\ owner' \in [Repls -> {SessionOf[d] : d \in ReplCalls} \cup {"none"}]
      /\ owner'[r] = SessionOf[c] /\ using'[c] = r /\ replPc'[c] = "start"
  BY <1>1, <1>2, ReplTypes DEF TypesNext, ReplInv, ReplPlaces
<1>6. PoolOf(lru)'
  BY <1>2, <1>3, <1>4 DEF PoolOf
<1>7. OthersStay(c)
  BY <1>1, <1>2, ReplTypes DEF OthersStay, ReplInv, OwnRepl
<1>8. PlacedWell(c)
  BY <1>2, <1>3, <1>4, <1>5 DEF PlacedWell
<1>9. \A q \in Repls : owner[q] # "none" => owner'[q] = owner[q]
  BY <1>1, ReplTypes DEF ReplInv
<1>10. ControlStep(c)
  BY <1>2, <1>5, <1>6, <1>7, <1>8, <1>9 DEF ControlStep
<1> QED
  BY <1>10, ControlKeeps, CreatePipes DEF ReplInv

\* The calls of a REPL leave the pool alone.
LEMMA CallControl ==
    ASSUME ReplInv, NEW c \in ReplCalls, UNCHANGED <<lru, owner>>,
           TypesNext, OthersStay(c), PlacedWell(c)
    PROVE  ReplShapes' /\ ManagerHeld' /\ RoomMade' /\ OwnRepl'
<1>1. PoolOf(lru)' /\ owner' \in [Repls -> {SessionOf[d] : d \in ReplCalls} \cup {"none"}]
  BY ReplTypes DEF ReplInv, RoomMade, PoolOf
<1>2. ControlStep(c)
  BY <1>1 DEF ControlStep
<1> QED
  BY <1>2, ControlKeeps

LEMMA EnterReplInv ==
    ASSUME ReplInv, NEW c \in ReplCalls, EnterRepl(c)
    PROVE  ReplInv'
<1>1. /\ replPc[c] = "queue" /\ using[c] \in Repls /\ owner[using[c]] = SessionOf[c]
      /\ holder[using[c]] = NoCall /\ NoCall \notin ReplCalls
      /\ holder' = [holder EXCEPT ![using[c]] = c]
      /\ UNCHANGED <<lru, owner, managerOf, alive, using, heard>>
      /\ managerOf # c
  BY AtWork, ReplTypes DEF EnterRepl, ReplInv
<1>2. \E pc \in {"run", "boot"} : replPc' = [replPc EXCEPT ![c] = pc]
  BY DEF EnterRepl, ReplGoes
<1>3. {"run", "boot"} \subseteq ReplPlaces
  BY DEF ReplPlaces
<1>4. pipe' \in [Repls -> Seq(ReplCalls)]
  BY EnterReplKeeps
<1>5. TypesNext
  BY <1>1, <1>2, <1>3, <1>4, ReplTypes DEF TypesNext, ReplInv
<1>6. OthersStay(c)
  BY <1>1, <1>2, AtWork, ReplTypes DEF OthersStay, ReplInv
<1>7. PlacedWell(c)
  BY <1>1, <1>2, ReplTypes DEF PlacedWell, ReplInv
<1> QED
  BY <1>1, <1>5, <1>6, <1>7, CallControl, EnterReplKeeps DEF ReplInv

LEMMA BootedInv ==
    ASSUME ReplInv, NEW c \in ReplCalls, Booted(c)
    PROVE  ReplInv'
<1>1. /\ replPc[c] = "boot" /\ using[c] \in Repls /\ owner[using[c]] = SessionOf[c]
      /\ holder[using[c]] = c /\ managerOf # c /\ "run" \in ReplPlaces
      /\ replPc' = [replPc EXCEPT ![c] = "run"]
      /\ alive' = [alive EXCEPT ![using[c]] = TRUE]
      /\ UNCHANGED <<lru, owner, managerOf, holder, using, heard>>
  BY AtWork DEF Booted, ReplGoes, ReplPlaces
<1>2. pipe' \in [Repls -> Seq(ReplCalls)]
  BY BootedKeeps
<1>3. TypesNext
  BY <1>1, <1>2, ReplTypes DEF TypesNext, ReplInv
<1>4. OthersStay(c)
  BY <1>1, AtWork, ReplTypes DEF OthersStay, ReplInv
<1>5. PlacedWell(c)
  BY <1>1, ReplTypes DEF PlacedWell, ReplInv
<1> QED
  BY <1>1, <1>3, <1>4, <1>5, CallControl, BootedKeeps DEF ReplInv

\* A call that is in a REPL leaves it, or is about to.
CallStep(c, pc) ==
    /\ replPc' = [replPc EXCEPT ![c] = pc]
    /\ pc = "done" => holder' = [holder EXCEPT ![using[c]] = NoCall]
    /\ pc = "stop" => holder' = holder
    /\ UNCHANGED <<lru, owner, managerOf, using>>

LEMMA CallStepKeeps ==
    ASSUME ReplInv, NEW c \in ReplCalls, replPc[c] \in {"run", "stop"},
           NEW pc \in {"stop", "done"}, CallStep(c, pc),
           alive' \in [Repls -> BOOLEAN], pipe' \in [Repls -> Seq(ReplCalls)],
           heard' \in [ReplCalls -> ReplCalls \cup {NoCall}]
    PROVE  /\ ReplShapes' /\ ManagerHeld' /\ RoomMade' /\ OwnRepl'
           /\ OthersStay(c) /\ TypesNext
<1>1. /\ using[c] \in Repls /\ owner[using[c]] = SessionOf[c]
      /\ holder[using[c]] = c /\ managerOf # c /\ pc \in ReplPlaces
  BY AtWork DEF ReplPlaces
<1>2. TypesNext
  BY <1>1, ReplTypes DEF TypesNext, ReplInv, CallStep
<1>3. OthersStay(c)
  BY <1>1, AtWork, ReplTypes DEF OthersStay, ReplInv, CallStep
<1>4. PlacedWell(c)
  BY <1>1, ReplTypes DEF PlacedWell, ReplInv, CallStep
<1>5. UNCHANGED <<lru, owner>>
  BY DEF CallStep
<1> QED
  BY <1>2, <1>3, <1>4, <1>5, CallControl

\* Without an answer the pipe is empty, or it is emptied.
LEMMA SilentKeeps ==
    ASSUME ReplInv, NEW c \in ReplCalls, replPc[c] \in {"run", "stop"},
           NEW pc \in {"stop", "done"}, CallStep(c, pc), PipesStay, heard' = heard,
           replPc[c] = "run" => pipe'[using[c]] = <<>>
    PROVE  ReplInv'
<1>1. heard' \in [ReplCalls -> ReplCalls \cup {NoCall}]
  BY ReplTypes DEF ReplInv
<1>2. /\ ReplShapes' /\ ManagerHeld' /\ RoomMade' /\ OwnRepl'
      /\ OthersStay(c) /\ TypesNext
  BY <1>1, CallStepKeeps DEF PipesStay
<1>3. /\ replPc' \in [ReplCalls -> ReplPlaces] /\ using' \in [ReplCalls -> Repls \cup {NoRepl}]
      /\ owner' = owner
      /\ \A d \in ReplCalls \ {c} : replPc'[d] = replPc[d] /\ using'[d] = using[d]
      /\ replPc'[c] = pc /\ using'[c] = using[c]
      /\ \A r \in Repls : pipe'[r] = pipe[r] \/ pipe'[r] = <<>>
      /\ \A r \in Repls : ~alive'[r] => pipe'[r] = <<>>
  BY <1>2, ReplTypes DEF TypesNext, OthersStay, CallStep, PipesStay, ReplInv
<1>4. PipesFit' /\ HeardWasSent' /\ AnswersMatch'
  BY <1>3, PipesKeep
<1> QED
  BY <1>2, <1>4 DEF ReplInv

LEMMA HearKeeps ==
    ASSUME ReplInv, NEW c \in ReplCalls, Hear(c)
    PROVE  ReplInv'
<1>1. replPc[c] = "run" /\ using[c] \in Repls /\ CallStep(c, "done")
  BY AtWork DEF Hear, Leave, ReplGoes, CallStep
<1>2. CASE /\ alive[using[c]] /\ pipe[using[c]] # <<>>
           /\ heard' = [heard EXCEPT ![c] = Head(pipe[using[c]])]
           /\ pipe' = [pipe EXCEPT ![using[c]] = Tail(@)]
           /\ UNCHANGED alive
  <2>1. HearsHead(c)
    BY <1>1, <1>2 DEF HearsHead, CallStep
  <2>2. /\ PipesFit' /\ HeardWasSent' /\ AnswersMatch' /\ pipe' \in [Repls -> Seq(ReplCalls)]
        /\ heard' \in [ReplCalls -> ReplCalls \cup {NoCall}]
    BY <2>1, HearAnswer
  <2>3. alive' \in [Repls -> BOOLEAN]
    BY <1>2, ReplTypes DEF ReplInv
  <2>4. ReplShapes' /\ ManagerHeld' /\ RoomMade' /\ OwnRepl'
    BY <1>1, <2>2, <2>3, CallStepKeeps
  <2> QED
    BY <2>2, <2>4 DEF ReplInv
<1>3. CASE /\ ~alive[using[c]] \/ pipe[using[c]] = <<>>
           /\ UNCHANGED <<heard, pipe, alive>>
  <2>1. PipesStay
    BY <1>3, Untouched
  <2>2. pipe'[using[c]] = <<>>
    BY <1>1, <1>3 DEF ReplInv, PipesFit
  <2> QED
    BY <1>1, <1>3, <2>1, <2>2, SilentKeeps
<1>4. CASE /\ alive' = [alive EXCEPT ![using[c]] = FALSE]
           /\ pipe' = [pipe EXCEPT ![using[c]] = <<>>]
           /\ UNCHANGED heard
  <2>1. PipesStay /\ pipe'[using[c]] = <<>>
    BY <1>1, <1>4, Emptied DEF Kill
  <2> QED
    BY <1>1, <1>4, <2>1, SilentKeeps
<1> QED
  BY <1>2, <1>3, <1>4 DEF Hear

LEMMA TimeoutKeeps ==
    ASSUME ReplInv, NEW c \in ReplCalls, ReplTimesOut(c) \/ Stopped(c)
    PROVE  ReplInv'
<1>1. CASE ReplTimesOut(c)
  <2>1. replPc[c] = "run" /\ using[c] \in Repls /\ Kill(using[c]) /\ CallStep(c, "stop") /\ heard' = heard
    BY <1>1, AtWork DEF ReplTimesOut, ReplGoes, CallStep
  <2>2. PipesStay /\ pipe'[using[c]] = <<>>
    BY <2>1, Emptied
  <2> QED
    BY <2>1, <2>2, SilentKeeps
<1>2. CASE Stopped(c)
  <2>1. replPc[c] = "stop" /\ CallStep(c, "done") /\ heard' = heard /\ UNCHANGED <<alive, pipe>>
    BY <1>2 DEF Stopped, Leave, ReplGoes, CallStep
  <2> QED
    BY <2>1, Untouched, SilentKeeps
<1> QED
  BY <1>1, <1>2

LEMMA CutKeeps ==
    ASSUME ReplInv, NEW c \in ReplCalls, Cut(c)
    PROVE  ReplInv'
<1>1. /\ replPc[c] \notin {"idle", "done", "cut"}
      /\ managerOf' = IF managerOf = c THEN NoCall ELSE managerOf
      /\ holder' = [r \in Repls |-> IF holder[r] = c THEN NoCall ELSE holder[r]]
      /\ replPc' = [replPc EXCEPT ![c] = "cut"] /\ "cut" \in ReplPlaces
      /\ UNCHANGED <<lru, owner, alive, pipe, using, heard>>
      /\ NoCall \notin ReplCalls
  BY ReplAssumption DEF Cut, ReplGoes, ReplPlaces
<1>2. TypesNext
  BY <1>1, ReplTypes DEF TypesNext, ReplInv
<1>3. /\ \A d \in ReplCalls \ {c} : replPc'[d] = replPc[d] /\ using'[d] = using[d]
      /\ replPc'[c] = "cut" /\ managerOf' # c
  BY <1>1, ReplTypes DEF ReplInv
<1>4. OthersStay(c)
  BY <1>1, <1>3, AtWork DEF OthersStay
<1>5. PlacedWell(c)
  BY <1>3 DEF PlacedWell
<1>6. ReplShapes' /\ ManagerHeld' /\ RoomMade' /\ OwnRepl'
  BY <1>1, <1>2, <1>4, <1>5, CallControl
<1>7. PipesFit' /\ HeardWasSent' /\ AnswersMatch'
  <2>1. PipesStay
    BY <1>1, Untouched
  <2> QED
    BY <1>1, <1>2, <1>3, <2>1, PipesKeep DEF PipesStay, TypesNext
<1> QED
  BY <1>6, <1>7 DEF ReplInv

LEMMA ReplStart == ReplInit => ReplInv
<1> SUFFICES ASSUME ReplInit PROVE ReplInv
  OBVIOUS
<1>1. PICK e : e = <<>> /\ Len(e) = 0 /\ e \in Seq(Repls) /\ e \in Seq(ReplCalls)
  BY EmptySeq
<1>2. /\ lru = e /\ pipe = [r \in Repls |-> e] /\ owner = [r \in Repls |-> "none"]
      /\ managerOf = NoCall /\ holder = [r \in Repls |-> NoCall]
      /\ alive = [r \in Repls |-> FALSE] /\ replPc \in [ReplCalls -> {"idle", "done"}]
      /\ using = [c \in ReplCalls |-> NoRepl] /\ heard = [c \in ReplCalls |-> NoCall]
  BY <1>1 DEF ReplInit
<1>3. /\ \A c \in ReplCalls : replPc[c] \in {"idle", "done"} /\ replPc[c] \in ReplPlaces
      /\ MaxSessions \in Nat /\ NoCall \notin ReplCalls
  BY <1>2, ReplAssumption DEF ReplPlaces
<1>4. ReplShapes
  <2>1. Range(lru) \subseteq Repls /\ \A r \in Repls : Range(pipe[r]) \subseteq ReplCalls
    BY <1>1, <1>2, RangeFits
  <2>2. replPc \in [ReplCalls -> ReplPlaces]
    BY <1>2, <1>3
  <2> QED
    BY <1>1, <1>2, <2>1, <2>2 DEF ReplShapes, ReplTypeOK
<1>5. ManagerHeld /\ OwnRepl /\ HeardWasSent /\ AnswersMatch
  BY <1>2, <1>3 DEF ManagerHeld, OwnRepl, HeardWasSent, AnswersMatch
<1>6. 1 .. Len(lru) = {} /\ \A r \in Repls : 1 .. Len(pipe[r]) = {} /\ pipe[r] = <<>>
  BY <1>1, <1>2
<1>7. RoomMade
  BY <1>1, <1>2, <1>3, <1>6 DEF RoomMade, PoolOf
<1>8. PipesFit
  BY <1>6 DEF PipesFit
<1> QED
  BY <1>4, <1>5, <1>7, <1>8 DEF ReplInv

LEMMA ReplInductive == ReplInv /\ [ReplNext]_replVars => ReplInv'
<1> SUFFICES ASSUME ReplInv, [ReplNext]_replVars PROVE ReplInv'
  OBVIOUS
<1>1. CASE UNCHANGED replVars
  <2>1. PoolOf(lru)' <=> PoolOf(lru)
    BY <1>1 DEF replVars, PoolOf
  <2>2. ReplShapes' /\ ManagerHeld' /\ OwnRepl'
    BY <1>1 DEF replVars, ReplInv, ReplShapes, ReplTypeOK, ManagerHeld, OwnRepl
  <2>3. RoomMade'
    BY <1>1, <2>1 DEF replVars, ReplInv, RoomMade
  <2>4. PipesFit' /\ HeardWasSent' /\ AnswersMatch'
    BY <1>1 DEF replVars, ReplInv, PipesFit, Asked, HeardWasSent, AnswersMatch
  <2> QED
    BY <2>2, <2>3, <2>4 DEF ReplInv
<1>2. ASSUME NEW c \in ReplCalls, ReplStep(c) \/ Cut(c) PROVE ReplInv'
  BY <1>2, FindKeeps, EvictKeeps, CreateKeeps, StartedKeeps, StartResetKeeps, ResetKeeps,
     CloseKeeps, EnterReplInv, BootedInv, HearKeeps, TimeoutKeeps, CutKeeps DEF ReplStep
<1> QED
  BY <1>1, <1>2 DEF ReplNext

\* ReplSound: the pool keeps one REPL to a session and within its bound, and a
\* call reads the answer to its own code, or, once a call of its session has
\* been cut off, that of one call before it.
THEOREM ReplSoundHolds == ReplSpec => []ReplSound
<1>1. ReplInv => ReplSound
  <2> SUFFICES ASSUME ReplInv PROVE ReplSound
    OBVIOUS
  <2>1. PoolOf(lru) /\ lru \in Seq(Repls)
    BY DEF ReplInv, RoomMade, ReplShapes
  <2>2. DOMAIN lru = 1 .. Len(lru)
    BY <2>1, RangeFits
  <2>3. OneReplPerSession
    BY <2>1, <2>2, AtWork, ReplTypes DEF OneReplPerSession, PoolOf, ReplInv
  <2> QED
    BY <2>3 DEF ReplSound, ReplInv, ReplShapes
<1> QED
  BY <1>1, ReplStart, ReplInductive, PTL DEF ReplSpec

-----------------------------------------------------------------------------
(* AgentLoop: the inductive invariant *)

Ids == Seq(Nat)
MessagesOf == [role : {"system", "user", "call", "tool"}, id : Ids, size : Nat]

\* A conversation that may be sent: it has its system message, and behind
\* every tool call all its results.
Answered(m) ==
    /\ m # <<>> /\ m[1].role = "system"
    /\ \A i \in 1 .. Len(m) : m[i].role = "call" =>
         /\ i + m[i].size <= Len(m)
         /\ \A k \in i + 1 .. i + m[i].size : m[k].role = "tool" /\ m[k].id = m[i].id

\* Where a run is in its loop, its budgets, and the loop of a retry.
LoopPcs == {"setup", "top", "call", "tools", "batched", "after", "gates", "reflect",
            "verdict", "retry", "shape", "final", "remember", "done", "failed"}
BudgetsOk ==
    /\ loopPc \in LoopPcs /\ iteration \in 0 .. MaxIterations + 1 /\ retryAt \in 0 .. RetryCalls
    /\ passes \in 0 .. MaxReflections /\ toolCalls \in Nat
    /\ offered \in BOOLEAN /\ exhausted \in BOOLEAN /\ steered \in BOOLEAN
    /\ loopPc \in {"setup", "top", "call"} => retryAt = 0 /\ passes = 0 /\ iteration <= MaxIterations
    /\ loopPc = "tools" /\ retryAt = 0 => passes = 0 /\ iteration <= MaxIterations
    /\ retryAt > 0 => loopPc \in {"retry", "tools"} /\ passes > 0
    /\ loopPc = "retry" => retryAt > 0
    /\ offered => toolCalls <= MaxToolCalls
    /\ loopPc \in {"tools", "retry"} => offered

\* Tool calls under execution are the last message; a run that is given up
\* may leave them there.
ConversationOk ==
    /\ messages \in Seq(MessagesOf)
    /\ batch \in Batches \cup {<<>>} /\ gathered \in Seq(BOOLEAN) /\ Len(gathered) <= Len(batch)
    /\ loopPc \in {"setup", "top", "call", "after", "gates", "reflect", "verdict", "retry"} => Answered(messages)
    /\ loopPc = "tools" =>
         /\ batch \in Batches
         /\ \E m \in Seq(MessagesOf), id \in Ids : Answered(m) /\ messages = Append(m, CallOf(batch, id))

StepStates == {"pending", "in_progress", "completed", "failed"}
Plans == [steps : Seq(StepStates), at : 0 .. PlanSize, replans : 0 .. MaxReplans]
InOrder(p) ==
    \A k \in 1 .. Len(p.steps) :
        /\ k <= p.at => p.steps[k] = "completed"
        /\ k = p.at + 1 => p.steps[k] # "pending"
NotBegun(p) == \A k \in 1 .. Len(p.steps) : k > p.at + 1 => p.steps[k] = "pending"
PlanOk ==
    /\ plan \in Plans /\ Len(plan.steps) <= PlanSize /\ InOrder(plan)
    /\ loopPc \in {"setup", "top", "call"} \/ (loopPc = "tools" /\ retryAt = 0) => NotBegun(plan)

AnswerOk ==
    /\ text \in Texts
    /\ loopPc \in {"final", "remember", "done"} => text # "empty"
    /\ finals = IF loopPc \in {"remember", "done"} THEN <<text>> ELSE <<>>
    /\ remembered = IF loopPc = "done" THEN <<text>> ELSE <<>>

ToolsOk ==
    /\ signatures \in Seq(Batches) /\ outcomes \subseteq ToolNames \X BOOLEAN
    /\ permitted \subseteq ToolNames \cup AllowedTools
    /\ ToolBudgetFinal

LoopInv == BudgetsOk /\ ConversationOk /\ PlanOk /\ AnswerOk /\ ToolsOk

-----------------------------------------------------------------------------
(* AgentLoop: conversations *)

LEMMA AnsweredFacts ==
    ASSUME NEW m \in Seq(MessagesOf), Answered(m)
    PROVE  /\ Len(m) \in Nat /\ Len(m) >= 1 /\ m[1].role = "system"
           /\ \A i \in 1 .. Len(m) : m[i] \in MessagesOf /\ m[i].size \in Nat
<1>1. m # <<>> /\ m[1].role = "system"
  BY DEF Answered
<1>2. Len(m) \in Nat \ {0}
  BY <1>1, EmptySeq
<1>3. \A i \in 1 .. Len(m) : m[i] \in MessagesOf
  BY ElementOfSeq
<1>4. \A x \in MessagesOf : x.size \in Nat
  BY DEF MessagesOf
<1> QED BY <1>1, <1>2, <1>3, <1>4

\* The results of a call, by their places.
LEMMA AnsweredCall ==
    ASSUME NEW m \in Seq(MessagesOf), Answered(m), NEW i \in 1 .. Len(m), m[i].role = "call"
    PROVE  /\ i + m[i].size <= Len(m) /\ m[i].size \in Nat
           /\ \A k \in i + 1 .. i + m[i].size : k \in 1 .. Len(m) /\ m[k].role = "tool" /\ m[k].id = m[i].id
<1>1. Len(m) \in Nat /\ m[i].size \in Nat
  BY AnsweredFacts
<1>2. /\ i + m[i].size <= Len(m)
      /\ \A k \in i + 1 .. i + m[i].size : m[k].role = "tool" /\ m[k].id = m[i].id
  BY DEF Answered
<1> QED BY <1>1, <1>2

LEMMA AnsweredAppend ==
    ASSUME NEW m \in Seq(MessagesOf), Answered(m), NEW x \in MessagesOf, x.role # "call"
    PROVE  Append(m, x) \in Seq(MessagesOf) /\ Answered(Append(m, x))
<1> DEFINE t == Append(m, x)
<1>1. /\ t \in Seq(MessagesOf) /\ Len(t) = Len(m) + 1 /\ t[Len(m) + 1] = x /\ Len(m) \in Nat
      /\ \A i \in 1 .. Len(m) : t[i] = m[i]
  OBVIOUS
<1>2. Len(m) >= 1 /\ m[1].role = "system"
  BY AnsweredFacts
<1> HIDE DEF t
<1>3. ASSUME NEW i \in 1 .. Len(t), t[i].role = "call"
      PROVE  /\ i + t[i].size <= Len(t)
             /\ \A k \in i + 1 .. i + t[i].size : t[k].role = "tool" /\ t[k].id = t[i].id
  <2>1. i \in 1 .. Len(m) /\ t[i] = m[i]
    BY <1>1, <1>3
  <2>2. /\ i + m[i].size <= Len(m) /\ m[i].size \in Nat
        /\ \A k \in i + 1 .. i + m[i].size : k \in 1 .. Len(m) /\ m[k].role = "tool" /\ m[k].id = m[i].id
    BY <1>3, <2>1, AnsweredCall
  <2> QED BY <1>1, <2>1, <2>2
<1>4. Answered(t)
  BY <1>1, <1>2, <1>3 DEF Answered
<1> QED BY <1>1, <1>4 DEF t

\* The tail of a conversation that compaction keeps.
LEMMA AnsweredCompacted ==
    ASSUME NEW m \in Seq(MessagesOf), Answered(m)
    PROVE  Compacted(m) \in Seq(MessagesOf) /\ Answered(Compacted(m))
<1>1. Len(m) \in Nat /\ Len(m) >= 1 /\ m[1].role = "system" /\ TailKeep \in Nat \ {0}
      /\ \A i \in 1 .. Len(m) : m[i] \in MessagesOf /\ m[i].size \in Nat
  BY AnsweredFacts, LoopAssumption
<1>2. CASE Len(m) <= TailKeep + 2
  BY <1>2 DEF Compacted
<1>3. CASE Len(m) > TailKeep + 2
  <2> DEFINE u == Message("user")
             h == <<m[1], u>>
             from == Len(m) - TailKeep + 1
             s == SubSeq(m, from, Len(m))
             t == h \o s
  <2>1. u \in MessagesOf /\ u.role # "call"
    BY DEF Message, MessagesOf, Ids
  <2>2. h \in Seq(MessagesOf) /\ Len(h) = 2 /\ h[1] = m[1] /\ h[2] = u
    <3> HIDE DEF u
    <3> QED BY <1>1, <2>1
  <2>3. from \in 4 .. Len(m) /\ from \in Nat /\ Len(m) - from + 1 = TailKeep
    BY <1>1, <1>3
  <2> HIDE DEF u, h, from
  <2>4. /\ s \in Seq(MessagesOf) /\ Len(s) = TailKeep
        /\ \A i \in 1 .. TailKeep : s[i] = m[from + i - 1]
    <3>1. \A i \in from .. Len(m) : m[i] \in MessagesOf
      BY <1>1, <2>3
    <3>2. /\ s \in Seq(MessagesOf) /\ Len(s) = (IF from <= Len(m) THEN Len(m) - from + 1 ELSE 0)
          /\ \A i \in 1 .. Len(m) - from + 1 : s[i] = m[from + i - 1]
      BY <1>1, <2>3, <3>1, SubSeqProperties
    <3> QED BY <2>3, <3>2
  <2> HIDE DEF s
  <2>5. /\ t \in Seq(MessagesOf) /\ Len(t) = TailKeep + 2 /\ t[1] = m[1] /\ t[2] = u
        /\ \A i \in 3 .. TailKeep + 2 : t[i] = m[from + i - 3]
    <3>0. /\ t \in Seq(MessagesOf) /\ Len(t) = Len(h) + Len(s)
          /\ \A i \in 1 .. Len(h) + Len(s) : t[i] = IF i <= Len(h) THEN h[i] ELSE s[i - Len(h)]
      BY <2>2, <2>4, ConcatProperties
    <3> HIDE DEF t
    <3>1. /\ t \in Seq(MessagesOf) /\ Len(t) = 2 + TailKeep
          /\ \A i \in 1 .. 2 + TailKeep : t[i] = IF i <= 2 THEN h[i] ELSE s[i - 2]
      BY <2>2, <2>4, <3>0
    <3> HIDE DEF t
    <3>2. t[1] = m[1] /\ t[2] = u
      BY <1>1, <2>2, <3>1
    <3>3. ASSUME NEW i \in 3 .. TailKeep + 2 PROVE t[i] = m[from + i - 3]
      <4>1. i - 2 \in 1 .. TailKeep /\ ~(i <= 2) /\ i \in 1 .. 2 + TailKeep /\ from + (i - 2) - 1 = from + i - 3
        BY <1>1, <2>3, <3>3
      <4> QED BY <2>4, <3>1, <4>1
    <3> QED BY <1>1, <3>1, <3>2, <3>3
  <2> HIDE DEF t
  <2>6. ASSUME NEW i \in 1 .. Len(t), t[i].role = "call"
        PROVE  /\ i + t[i].size <= Len(t)
               /\ \A k \in i + 1 .. i + t[i].size : t[k].role = "tool" /\ t[k].id = t[i].id
    <3>1. i # 1 /\ i # 2
      BY <1>1, <2>1, <2>5, <2>6
    <3>2. i \in 3 .. TailKeep + 2 /\ i \in Nat
      BY <1>1, <2>5, <3>1
    <3> DEFINE j == from + i - 3
    <3>a. t[i] = m[j]
      BY <2>5, <3>2
    <3>b. from \in Nat /\ from >= 4 /\ Len(m) = from + TailKeep - 1 /\ Len(t) = TailKeep + 2
      BY <1>1, <2>3, <2>5
    <3>3. j \in 1 .. Len(m) /\ t[i] = m[j] /\ Len(m) - j = Len(t) - i /\ j \in Nat
      BY <1>1, <3>2, <3>a, <3>b
    <3>4. j - i = from - 3
      BY <1>1, <2>3, <3>2
    <3> HIDE DEF j
    <3>5. /\ j + m[j].size <= Len(m) /\ m[j].size \in Nat
          /\ \A k \in j + 1 .. j + m[j].size : m[k].role = "tool" /\ m[k].id = m[j].id
      BY <2>6, <3>3, AnsweredCall
    <3>6. i + t[i].size <= Len(t)
      BY <1>1, <2>5, <3>2, <3>3, <3>5
    <3>7. ASSUME NEW k \in i + 1 .. i + t[i].size PROVE t[k].role = "tool" /\ t[k].id = t[i].id
      <4>1. k \in 3 .. TailKeep + 2 /\ k \in Nat
        BY <1>1, <2>5, <3>2, <3>3, <3>5, <3>6, <3>7
      <4>2. from + k - 3 \in j + 1 .. j + m[j].size
        BY <1>1, <2>3, <3>2, <3>3, <3>4, <3>5, <3>7, <4>1
      <4>3. t[k] = m[from + k - 3]
        BY <2>5, <4>1
      <4> QED BY <3>3, <3>5, <4>2, <4>3
    <3> QED BY <3>6, <3>7
  <2>7. Answered(t)
    <3>1. t # <<>> /\ t[1].role = "system"
      BY <1>1, <2>5
    <3> QED BY <2>6, <3>1 DEF Answered
  <2>8. Compacted(m) = t
    <3>1. ~(Len(m) <= TailKeep + 2)
      BY <1>1, <1>3
    <3> QED BY <3>1, Zenon DEF Compacted, t, h, s, u, from
  <2> QED BY <2>5, <2>7, <2>8
<1> QED BY <1>1, <1>2, <1>3

LEMMA SentAnswered ==
    ASSUME messages \in Seq(MessagesOf), Answered(messages), NEW m \in Sent
    PROVE  m \in Seq(MessagesOf) /\ Answered(m)
BY AnsweredCompacted DEF Sent

\* The results of a batch join the conversation behind their call.
LEMMA ResultsAnswered ==
    ASSUME NEW m \in Seq(MessagesOf), NEW id \in Ids, Answered(m), batch \in Batches,
           NEW c, c = Append(m, CallOf(batch, id))
    PROVE  Results(c) \in Seq(MessagesOf) /\ Answered(Results(c))
<1> DEFINE call == CallOf(batch, id)
           r == [role |-> "tool", id |-> id, size |-> 0]
           n == Len(batch)
           s == [k \in 1 .. n |-> r]
           t == c \o s
<1>1. n \in Nat
  BY LoopAssumption
<1>2. call \in MessagesOf /\ call.role = "call" /\ call.size = n /\ call.id = id
  BY <1>1 DEF CallOf, MessagesOf
<1>3. r \in MessagesOf /\ r.role = "tool" /\ r.id = id
  BY DEF MessagesOf
<1> HIDE DEF call, r
<1>4. /\ c \in Seq(MessagesOf) /\ Len(c) = Len(m) + 1 /\ c[Len(c)] = call /\ Len(m) \in Nat
      /\ \A i \in 1 .. Len(m) : c[i] = m[i]
  BY <1>2 DEF call
<1>5. Len(m) >= 1 /\ m[1].role = "system" /\ \A i \in 1 .. Len(m) : m[i] \in MessagesOf /\ m[i].size \in Nat
  BY AnsweredFacts
<1>6. s \in Seq(MessagesOf) /\ Len(s) = n /\ \A k \in 1 .. n : s[k] = r
  <2> HIDE DEF n
  <2> QED BY <1>1, <1>3
<1> HIDE DEF s, n
<1>7. /\ t \in Seq(MessagesOf) /\ Len(t) = Len(m) + 1 + n
      /\ \A i \in 1 .. Len(m) : t[i] = m[i]
      /\ t[Len(m) + 1] = call
      /\ \A i \in Len(m) + 2 .. Len(m) + 1 + n : t[i] = r
  <2>1. /\ t \in Seq(MessagesOf) /\ Len(t) = Len(c) + n
        /\ \A i \in 1 .. Len(c) + n : t[i] = IF i <= Len(c) THEN c[i] ELSE s[i - Len(c)]
    BY <1>4, <1>6, ConcatProperties
  <2> HIDE DEF t
  <2>2. \A i \in 1 .. Len(m) : t[i] = m[i]
    BY <1>1, <1>4, <2>1
  <2>3. t[Len(m) + 1] = call
    BY <1>1, <1>4, <2>1
  <2>4. ASSUME NEW i \in Len(m) + 2 .. Len(m) + 1 + n PROVE t[i] = r
    <3>1. i \in 1 .. Len(c) + n /\ ~(i <= Len(c)) /\ i - Len(c) \in 1 .. n
      BY <1>1, <1>4, <2>4
    <3> QED BY <1>6, <2>1, <3>1
  <2> QED BY <1>1, <1>4, <2>1, <2>2, <2>3, <2>4
<1> HIDE DEF t
<1>8. ASSUME NEW i \in 1 .. Len(t), t[i].role = "call"
      PROVE  /\ i + t[i].size <= Len(t)
             /\ \A k \in i + 1 .. i + t[i].size : t[k].role = "tool" /\ t[k].id = t[i].id
  <2>1. CASE i \in 1 .. Len(m)
    <3>1. t[i] = m[i]
      BY <1>7, <2>1
    <3>2. /\ i + m[i].size <= Len(m) /\ m[i].size \in Nat
          /\ \A k \in i + 1 .. i + m[i].size : k \in 1 .. Len(m) /\ m[k].role = "tool" /\ m[k].id = m[i].id
      BY <1>8, <2>1, <3>1, AnsweredCall
    <3>3. \A k \in i + 1 .. i + t[i].size : t[k].role = "tool" /\ t[k].id = t[i].id
      BY <1>7, <3>1, <3>2
    <3>4. i + t[i].size <= Len(t)
      BY <1>1, <1>4, <1>7, <2>1, <3>1, <3>2
    <3> QED BY <3>3, <3>4
  <2>2. CASE i = Len(m) + 1
    <3>1. t[i] = call
      BY <1>7, <2>2
    <3>2. \A k \in i + 1 .. i + n : t[k] = r
      BY <1>1, <1>4, <1>7, <2>2
    <3> QED BY <1>1, <1>2, <1>3, <1>4, <1>7, <2>2, <3>1, <3>2
  <2>3. CASE i \in Len(m) + 2 .. Len(m) + 1 + n
    BY <1>3, <1>7, <1>8, <2>3
  <2> QED BY <1>1, <1>4, <1>7, <2>1, <2>2, <2>3
<1>9. Answered(t)
  <2>1. t # <<>> /\ t[1].role = "system"
    BY <1>1, <1>4, <1>5, <1>7
  <2> QED BY <1>8, <2>1 DEF Answered
<1>10. Results(c) = t
  <2>1. Last(c).id = id
    BY <1>2, <1>4 DEF Last
  <2> QED BY <2>1 DEF Results, t, s, r, n
<1> QED BY <1>7, <1>9, <1>10
-----------------------------------------------------------------------------
(* AgentLoop: plans *)

LEMMA NewPlanOk ==
    ASSUME plan \in Plans, Len(plan.steps) <= PlanSize, InOrder(plan), NEW i, NEW p \in PlanOf(i)
    PROVE  p \in Plans /\ Len(p.steps) <= PlanSize /\ InOrder(p) /\ (NotBegun(plan) => NotBegun(p))
<1>1. CASE p = plan
  BY <1>1
<1>2. CASE p # plan
  <2> DEFINE s == [k \in 1 .. PlanSize |-> IF k = 1 THEN "in_progress" ELSE "pending"]
  <2>1. p = [steps |-> s, at |-> 0, replans |-> 0] /\ PlanSize \in Nat /\ MaxReplans \in Nat
    BY <1>2, LoopAssumption DEF PlanOf
  <2>2. s \in Seq(StepStates) /\ Len(s) = PlanSize
    BY <2>1 DEF StepStates
  <2>3. \A k \in 1 .. PlanSize : s[k] = IF k = 1 THEN "in_progress" ELSE "pending"
    OBVIOUS
  <2> HIDE DEF s
  <2>4. p.steps = s /\ p.at = 0 /\ p \in Plans
    BY <2>1, <2>2 DEF Plans
  <2> QED BY <2>1, <2>2, <2>3, <2>4 DEF InOrder, NotBegun
<1> QED BY <1>1, <1>2

\* A plan whose steps are changed one by one.
LEMMA StepsChanged ==
    ASSUME NEW p \in Plans, NEW s \in [1 .. Len(p.steps) -> StepStates], NEW at \in 0 .. PlanSize,
           NEW n \in 0 .. MaxReplans, NEW q, q = [steps |-> s, at |-> at, replans |-> n]
    PROVE  q \in Plans /\ q.steps = s /\ q.at = at /\ Len(q.steps) = Len(p.steps)
<1>1. Len(p.steps) \in Nat
  BY DEF Plans
<1>2. s \in Seq(StepStates) /\ Len(s) = Len(p.steps)
  BY <1>1
<1> QED BY <1>2 DEF Plans

LEMMA PlanParts ==
    ASSUME NEW p \in Plans
    PROVE  /\ p = [steps |-> p.steps, at |-> p.at, replans |-> p.replans]
           /\ DOMAIN p.steps = 1 .. Len(p.steps) /\ Len(p.steps) \in Nat
           /\ p.at \in 0 .. PlanSize /\ p.replans \in 0 .. MaxReplans /\ PlanSize \in Nat /\ MaxReplans \in Nat
           /\ \A k \in 1 .. Len(p.steps) : p.steps[k] \in StepStates
<1>1. p.steps \in Seq(StepStates)
  BY DEF Plans
<1>2. DOMAIN p.steps = 1 .. Len(p.steps) /\ Len(p.steps) \in Nat /\ \A k \in 1 .. Len(p.steps) : p.steps[k] \in StepStates
  BY <1>1, LenProperties, ElementOfSeq
<1> QED BY <1>2, LoopAssumption DEF Plans

LEMMA ClosedOk ==
    ASSUME NEW p \in Plans, Len(p.steps) <= PlanSize, InOrder(p)
    PROVE  Closed(p) \in Plans /\ Len(Closed(p).steps) <= PlanSize /\ InOrder(Closed(p))
<1> DEFINE s == [k \in 1 .. Len(p.steps) |-> IF p.steps[k] = "failed" THEN "failed" ELSE "completed"]
           q == Closed(p)
<1>1. q = [steps |-> s, at |-> p.at, replans |-> p.replans]
  BY PlanParts DEF Closed
<1>2. s \in [1 .. Len(p.steps) -> StepStates] /\ p.at \in 0 .. PlanSize /\ p.replans \in 0 .. MaxReplans
  BY PlanParts DEF StepStates
<1> HIDE DEF q
<1>3. q \in Plans /\ q.steps = s /\ q.at = p.at /\ Len(q.steps) = Len(p.steps)
  <2> HIDE DEF s
  <2> QED BY <1>1, <1>2, StepsChanged
<1>4. InOrder(q)
  BY <1>3 DEF InOrder
<1> QED BY <1>3, <1>4 DEF q

LEMMA AdvancedOk ==
    ASSUME NEW p \in Plans, Len(p.steps) <= PlanSize, InOrder(p), NotBegun(p), p.at < Len(p.steps)
    PROVE  Advanced(p) \in Plans /\ Len(Advanced(p).steps) <= PlanSize /\ InOrder(Advanced(p)) /\ NotBegun(Advanced(p))
<1> DEFINE s == [k \in 1 .. Len(p.steps) |-> IF k = p.at + 1 THEN "completed"
                                             ELSE IF k = p.at + 2 THEN "in_progress" ELSE p.steps[k]]
           q == Advanced(p)
<1>0. /\ p = [steps |-> p.steps, at |-> p.at, replans |-> p.replans] /\ DOMAIN p.steps = 1 .. Len(p.steps)
      /\ Len(p.steps) \in Nat /\ p.at \in 0 .. PlanSize /\ PlanSize \in Nat
      /\ \A k \in 1 .. Len(p.steps) : p.steps[k] \in StepStates
  BY PlanParts
<1>1. q = [steps |-> s, at |-> p.at + 1, replans |-> p.replans]
  BY <1>0 DEF Advanced
<1>2. s \in [1 .. Len(p.steps) -> StepStates] /\ p.at + 1 \in 0 .. PlanSize /\ p.replans \in 0 .. MaxReplans
  BY <1>0, PlanParts DEF StepStates
<1> HIDE DEF q
<1>3. q \in Plans /\ q.steps = s /\ q.at = p.at + 1 /\ Len(q.steps) = Len(p.steps)
  <2> HIDE DEF s
  <2> QED BY <1>1, <1>2, StepsChanged
<1>4. \A k \in 1 .. Len(p.steps) : s[k] = IF k = p.at + 1 THEN "completed"
                                             ELSE IF k = p.at + 2 THEN "in_progress" ELSE p.steps[k]
  OBVIOUS
<1> HIDE DEF s
<1>5. InOrder(q)
  BY <1>0, <1>3, <1>4 DEF InOrder
<1>6. NotBegun(q)
  BY <1>0, <1>3, <1>4 DEF NotBegun
<1> QED BY <1>3, <1>5, <1>6 DEF q

LEMMA FailedPlanOk ==
    ASSUME NEW p \in Plans, Len(p.steps) <= PlanSize, InOrder(p), NotBegun(p), p.replans < MaxReplans
    PROVE  FailedPlan(p) \in Plans /\ Len(FailedPlan(p).steps) <= PlanSize /\ InOrder(FailedPlan(p)) /\ NotBegun(FailedPlan(p))
<1> DEFINE s == [k \in 1 .. Len(p.steps) |-> IF k = p.at + 1 THEN "failed" ELSE p.steps[k]]
           q == FailedPlan(p)
<1>0. /\ p = [steps |-> p.steps, at |-> p.at, replans |-> p.replans] /\ DOMAIN p.steps = 1 .. Len(p.steps)
      /\ Len(p.steps) \in Nat /\ p.at \in 0 .. PlanSize /\ PlanSize \in Nat /\ MaxReplans \in Nat
      /\ p.replans \in 0 .. MaxReplans /\ \A k \in 1 .. Len(p.steps) : p.steps[k] \in StepStates
  BY PlanParts
<1>1. q = [steps |-> s, at |-> p.at, replans |-> p.replans + 1]
  BY <1>0 DEF FailedPlan
<1>2. s \in [1 .. Len(p.steps) -> StepStates] /\ p.replans + 1 \in 0 .. MaxReplans
  BY <1>0 DEF StepStates
<1> HIDE DEF q
<1>3. q \in Plans /\ q.steps = s /\ q.at = p.at /\ Len(q.steps) = Len(p.steps)
  <2> HIDE DEF s
  <2> QED BY <1>0, <1>1, <1>2, StepsChanged
<1>4. \A k \in 1 .. Len(p.steps) : s[k] = IF k = p.at + 1 THEN "failed" ELSE p.steps[k]
  OBVIOUS
<1> HIDE DEF s
<1>5. InOrder(q)
  BY <1>0, <1>3, <1>4 DEF InOrder
<1>6. NotBegun(q)
  BY <1>0, <1>3, <1>4 DEF NotBegun
<1> QED BY <1>3, <1>5, <1>6 DEF q

LEMMA PlannedOk ==
    ASSUME NEW p \in Plans, Len(p.steps) <= PlanSize, InOrder(p), NotBegun(p), NEW failures, NEW q \in Planned(p, failures)
    PROVE  q \in Plans /\ Len(q.steps) <= PlanSize /\ InOrder(q) /\ NotBegun(q)
<1>1. \/ q = p
      \/ q = FailedPlan(p) /\ p.replans < MaxReplans
      \/ q = Advanced(p) /\ p.at < Len(p.steps)
  BY DEF Planned
<1> QED BY <1>1, FailedPlanOk, AdvancedOk

-----------------------------------------------------------------------------
(* AgentLoop: the steps *)

LEMMA BudgetsKept == ASSUME BudgetsOk, batch \in Batches \cup {<<>>}, LoopNext PROVE BudgetsOk'
<1> USE DEF BudgetsOk, LoopGoes, conversation, budgets, answerVars
<1>0. MaxIterations \in Nat /\ MaxToolCalls \in Nat /\ RetryCalls \in Nat \ {0} /\ MaxReflections \in Nat /\ Len(batch) \in Nat
  BY LoopAssumption
<1>1. CASE SetUp \/ LeaveLoop \/ CallFails
  BY <1>1 DEF SetUp, LeaveLoop, CallFails, LoopPcs
<1>10. CASE Conclude \/ ApplyGates
  BY <1>10 DEF Conclude, ApplyGates, LoopPcs
<1>11. CASE Shape \/ SendFinal \/ Remember
  BY <1>11 DEF Shape, Verified, SendFinal, Remember, LoopPcs
<1>2. CASE StartIteration
  <2>1. /\ loopPc = "top" /\ iteration' = iteration + 1
        /\ UNCHANGED <<toolCalls, offered, retryAt, passes>>
        /\ \/ iteration < MaxIterations /\ loopPc' = "call" /\ exhausted' = exhausted /\ steered' = steered
           \/ loopPc' = "after" /\ exhausted' = TRUE /\ steered' = steered
           \/ loopPc' = "after" /\ exhausted' = exhausted /\ steered' = TRUE
    BY <1>2 DEF StartIteration
  <2>2. iteration' \in 0 .. MaxIterations + 1 /\ (loopPc' = "call" => iteration' <= MaxIterations)
    BY <1>0, <2>1
  <2> QED BY <2>1, <2>2 DEF LoopPcs
<1>3. CASE Stop \/ Overflow
  BY <1>3 DEF Stop, Overflow, LoopPcs
<1>12. ASSUME NEW b \in Batches, AskTools(b) PROVE BudgetsOk'
  BY <1>12 DEF AskTools, LoopPcs
<1>4. CASE RunTool \/ BlockTool
  BY <1>4 DEF RunTool, BlockTool, InBatch, LoopPcs
<1>5. CASE CancelTool
  BY <1>0, <1>5 DEF CancelTool, InBatch, LoopPcs
<1>6. CASE EndBatch
  <2>1. /\ loopPc = "tools" /\ retryAt = 0 /\ loopPc' = "top" /\ toolCalls' = toolCalls + Len(batch)
        /\ UNCHANGED <<iteration, steered, retryAt, passes>>
    BY <1>6 DEF EndBatch
  <2> DEFINE over == toolCalls + Len(batch) > MaxToolCalls
  <2>2. exhausted' = over /\ offered' = (offered /\ ~over)
    BY <1>6 DEF EndBatch
  <2>3. over \in BOOLEAN /\ offered \in BOOLEAN /\ (~over => toolCalls' <= MaxToolCalls) /\ toolCalls' \in Nat
    <3>1. toolCalls \in Nat
      OBVIOUS
    <3> QED BY <1>0, <2>1, <3>1
  <2> HIDE DEF over
  <2>4. exhausted' \in BOOLEAN /\ offered' \in BOOLEAN /\ (offered' => ~over)
    BY <2>2, <2>3, Zenon
  <2> QED BY <2>1, <2>3, <2>4 DEF LoopPcs
<1>7. CASE Reflect
  BY <1>0, <1>7 DEF Reflect, RetriesWithTools, LoopPcs
<1>8. CASE RetryText \/ RetryStops \/ \E b \in Batches : RetryTools(b)
  BY <1>0, <1>8 DEF RetryText, RetryStops, RetryTools, LoopPcs
<1>9. CASE EndRetryBatch
  BY <1>0, <1>9 DEF EndRetryBatch, LoopPcs
<1> QED BY <1>1, <1>2, <1>3, <1>4, <1>5, <1>6, <1>7, <1>8, <1>9, <1>10, <1>11, <1>12 DEF LoopNext

\* The loop's places at which the model may be called again.
Calling == {"setup", "top", "call", "after", "gates", "reflect", "verdict", "retry"}

LEMMA ConversationStays ==
    ASSUME ConversationOk, UNCHANGED conversation, loopPc \in Calling \/ loopPc' \notin Calling,
           loopPc' # "tools"
    PROVE  ConversationOk'
<1>1. UNCHANGED <<messages, batch, gathered>>
  BY DEF conversation
<1> QED BY <1>1 DEF ConversationOk, Calling

\* The conversation changes to one that may be sent.
LEMMA ConversationGrows ==
    ASSUME ConversationOk, messages' \in Seq(MessagesOf), Answered(messages'), loopPc' # "tools",
           (batch' = batch /\ gathered' = gathered) \/ (batch' = <<>> /\ gathered' = <<>>)
    PROVE  ConversationOk'
<1>1. /\ batch' \in Batches \cup {<<>>} /\ gathered' \in Seq(BOOLEAN) /\ Len(gathered') <= Len(batch')
  <2>1. CASE batch' = batch /\ gathered' = gathered
    BY <2>1 DEF ConversationOk
  <2>2. CASE batch' = <<>> /\ gathered' = <<>>
    BY <2>2
  <2> QED BY <2>1, <2>2
<1> QED BY <1>1 DEF ConversationOk

\* A batch is asked for.
LEMMA ConversationAsks ==
    ASSUME NEW b \in Batches, NEW m \in Seq(MessagesOf), Answered(m), NEW id \in Ids,
           messages' = Append(m, CallOf(b, id)), batch' = b, gathered' = <<>>, loopPc' = "tools"
    PROVE  ConversationOk'
<1>1. Len(b) \in Nat
  BY LoopAssumption
<1>2. CallOf(b, id) \in MessagesOf
  BY <1>1 DEF CallOf, MessagesOf
<1>3. messages' \in Seq(MessagesOf)
  <2> DEFINE x == CallOf(b, id)
  <2> HIDE DEF x
  <2>1. messages' = Append(m, x) /\ x \in MessagesOf
    BY <1>2 DEF x
  <2> QED BY <2>1, AppendProperties
<1>4. gathered' \in Seq(BOOLEAN) /\ Len(gathered') <= Len(batch')
  BY <1>1
<1> QED BY <1>3, <1>4 DEF ConversationOk

LEMMA FreshIds == ASSUME BudgetsOk PROVE FreshId \in Ids
<1>1. iteration \in Nat /\ passes \in Nat /\ retryAt \in Nat
  BY LoopAssumption DEF BudgetsOk
<1> QED BY <1>1 DEF FreshId, Ids

LEMMA UserMessage == Message("user") \in MessagesOf /\ Message("user").role # "call"
BY DEF Message, MessagesOf, Ids

\* A tool ends, in whatever way.
LEMMA ConversationGathers ==
    ASSUME ConversationOk, InBatch, NEW failed \in BOOLEAN, gathered' = Append(gathered, failed),
           UNCHANGED <<loopPc, messages, batch>>
    PROVE  ConversationOk'
<1>1. loopPc = "tools" /\ Len(gathered) < Len(batch) /\ batch \in Batches /\ gathered \in Seq(BOOLEAN)
  BY DEF InBatch, ConversationOk
<1>2. Len(batch) \in Nat
  BY <1>1, LoopAssumption
<1>3. gathered' \in Seq(BOOLEAN) /\ Len(gathered') <= Len(batch')
  BY <1>1, <1>2
<1> QED BY <1>1, <1>3 DEF ConversationOk

\* The results of the batch join the conversation.
LEMMA ResultsJoin ==
    ASSUME ConversationOk, loopPc = "tools"
    PROVE  Results(messages) \in Seq(MessagesOf) /\ Answered(Results(messages))
<1>1. PICK m \in Seq(MessagesOf), id \in Ids : Answered(m) /\ messages = Append(m, CallOf(batch, id))
  BY DEF ConversationOk
<1>2. batch \in Batches
  BY DEF ConversationOk
<1> QED BY <1>1, <1>2, ResultsAnswered

LEMMA ConversationKept == ASSUME BudgetsOk, ConversationOk, LoopNext PROVE ConversationOk'
<1>1. CASE SetUp \/ LeaveLoop \/ CallFails
  BY <1>1, ConversationStays DEF SetUp, LeaveLoop, CallFails, LoopGoes, Calling
<1>2. CASE StartIteration
  BY <1>2, ConversationStays DEF StartIteration, LoopGoes, Calling
<1>3. CASE Conclude \/ ApplyGates
  BY <1>3, ConversationStays DEF Conclude, ApplyGates, LoopGoes, Calling
<1>4. CASE Shape \/ SendFinal \/ Remember
  BY <1>4, ConversationStays DEF Shape, SendFinal, Remember, LoopGoes, Calling
<1>5. CASE RetryText \/ RetryStops
  BY <1>5, ConversationStays DEF RetryText, RetryStops, LoopGoes, Calling
<1>6. CASE Stop \/ Overflow
  <2>1. messages \in Seq(MessagesOf) /\ Answered(messages)
    BY <1>6 DEF ConversationOk, Stop, Overflow
  <2>2. loopPc' \in {"after", "top"} /\ UNCHANGED <<batch, gathered>>
    BY <1>6 DEF Stop, Overflow, LoopGoes
  <2>3. messages' \in Sent \/ messages' = messages \/ \E m \in Sent : messages' = Compacted(m)
    BY <1>6 DEF Stop, Overflow
  <2>4. messages' \in Seq(MessagesOf) /\ Answered(messages')
    <3>1. CASE messages' \in Sent \/ messages' = messages
      BY <2>1, <3>1, SentAnswered
    <3>2. CASE \E m \in Sent : messages' = Compacted(m)
      <4>1. PICK m \in Sent : messages' = Compacted(m)
        BY <3>2
      <4>2. m \in Seq(MessagesOf) /\ Answered(m)
        BY <2>1, <4>1, SentAnswered
      <4> QED BY <4>1, <4>2, AnsweredCompacted
    <3> QED BY <2>3, <3>1, <3>2
  <2> QED BY <2>2, <2>4, ConversationGrows
<1>7. ASSUME NEW b \in Batches, AskTools(b) PROVE ConversationOk'
  <2>1. messages \in Seq(MessagesOf) /\ Answered(messages)
    BY <1>7 DEF ConversationOk, AskTools
  <2>2. PICK m \in Sent : messages' = Append(m, CallOf(b, FreshId))
    BY <1>7 DEF AskTools
  <2>3. loopPc' = "tools" /\ batch' = b /\ gathered' = <<>>
    BY <1>7 DEF AskTools, LoopGoes
  <2>4. m \in Seq(MessagesOf) /\ Answered(m)
    BY <2>1, <2>2, SentAnswered
  <2> QED BY <2>2, <2>3, <2>4, FreshIds, ConversationAsks
<1>8. ASSUME NEW b \in Batches, RetryTools(b) PROVE ConversationOk'
  <2>1. messages \in Seq(MessagesOf) /\ Answered(messages)
    BY <1>8 DEF ConversationOk, RetryTools
  <2>2. loopPc' = "tools" /\ batch' = b /\ gathered' = <<>> /\ messages' = Append(messages, CallOf(b, FreshId))
    BY <1>8 DEF RetryTools, LoopGoes
  <2> QED BY <2>1, <2>2, FreshIds, ConversationAsks
<1>9. CASE RunTool \/ BlockTool
  <2>1. InBatch /\ UNCHANGED <<loopPc, messages, batch>> /\ \E failed \in BOOLEAN : gathered' = Append(gathered, failed)
    BY <1>9 DEF RunTool, BlockTool
  <2> QED BY <2>1, ConversationGathers
<1>10. CASE CancelTool
  <2>1. loopPc' \in {"shape", "failed"} /\ batch' = <<>> /\ gathered' = <<>> /\ messages' = messages
    BY <1>10 DEF CancelTool, LoopGoes
  <2> QED BY <2>1 DEF ConversationOk
<1>11. CASE EndBatch
  <2>1. /\ loopPc = "tools" /\ loopPc' = "top" /\ batch' = <<>> /\ gathered' = <<>>
        /\ messages' = Results(messages) \/ messages' = Append(Results(messages), Message("user"))
    BY <1>11 DEF EndBatch, LoopGoes
  <2>2. Results(messages) \in Seq(MessagesOf) /\ Answered(Results(messages))
    BY <2>1, ResultsJoin
  <2>3. Append(Results(messages), Message("user")) \in Seq(MessagesOf) /\ Answered(Append(Results(messages), Message("user")))
    BY <2>2, UserMessage, AnsweredAppend
  <2> QED BY <2>1, <2>2, <2>3, ConversationGrows
<1>12. CASE Reflect
  <2>1. CASE LoopGoes("shape") /\ UNCHANGED messages
    <3>1. loopPc' = "shape" /\ UNCHANGED conversation
      BY <1>12, <2>1 DEF Reflect, LoopGoes, conversation
    <3> QED BY <3>1, ConversationStays DEF Calling
  <2>2. CASE messages' = Append(messages, Message("user"))
    <3>1. loopPc = "reflect" /\ loopPc' # "tools" /\ UNCHANGED <<batch, gathered>>
      BY <1>12 DEF Reflect, LoopGoes
    <3>2. messages' \in Seq(MessagesOf) /\ Answered(messages')
      BY <2>2, <3>1, UserMessage, AnsweredAppend DEF ConversationOk
    <3> QED BY <3>1, <3>2, ConversationGrows
  <2> QED BY <1>12, <2>1, <2>2 DEF Reflect
<1>13. CASE EndRetryBatch
  <2>1. /\ loopPc = "tools" /\ loopPc' \in {"retry", "reflect"} /\ batch' = <<>> /\ gathered' = <<>>
        /\ messages' = Results(messages)
    BY <1>13 DEF EndRetryBatch, LoopGoes
  <2> QED BY <2>1, ResultsJoin, ConversationGrows
<1> QED BY <1>1, <1>2, <1>3, <1>4, <1>5, <1>6, <1>7, <1>8, <1>9, <1>10, <1>11, <1>12, <1>13 DEF LoopNext

\* A step that leaves the plan alone does not enter the loop.
LEMMA PlanKept == ASSUME BudgetsOk, PlanOk, LoopNext PROVE PlanOk'
<1> DEFINE Inside == loopPc \in {"setup", "top", "call"} \/ (loopPc = "tools" /\ retryAt = 0)
<1>0. PlanOk' <=> /\ plan' \in Plans /\ Len(plan'.steps) <= PlanSize /\ InOrder(plan')
                  /\ Inside' => NotBegun(plan')
  BY DEF PlanOk
<1>1. ASSUME plan' = plan, Inside' => Inside PROVE PlanOk'
  BY <1>0, <1>1 DEF PlanOk
<1>2. CASE SetUp \/ LeaveLoop \/ CallFails \/ StartIteration
  BY <1>1, <1>2 DEF SetUp, LeaveLoop, CallFails, StartIteration, LoopGoes
<1>3. CASE Conclude \/ ApplyGates \/ Shape \/ SendFinal \/ Remember
  BY <1>1, <1>3 DEF Conclude, ApplyGates, Shape, SendFinal, Remember, LoopGoes
<1>4. CASE Reflect \/ RetryText \/ RetryStops
  BY <1>1, <1>4 DEF Reflect, RetryText, RetryStops, LoopGoes
<1>5. CASE RunTool \/ BlockTool \/ CancelTool
  BY <1>1, <1>5 DEF RunTool, BlockTool, CancelTool, LoopGoes
<1>6. CASE EndRetryBatch \/ \E b \in Batches : RetryTools(b)
  BY <1>1, <1>6 DEF EndRetryBatch, RetryTools, LoopGoes, BudgetsOk
<1>7. CASE Stop
  <2>1. PICK p \in PlanOf(iteration) : plan' = Closed(p)
    BY <1>7 DEF Stop
  <2>2. p \in Plans /\ Len(p.steps) <= PlanSize /\ InOrder(p)
    BY NewPlanOk DEF PlanOk
  <2>3. loopPc' = "after"
    BY <1>7 DEF Stop, LoopGoes
  <2> QED BY <1>0, <2>1, <2>2, <2>3, ClosedOk
<1>8. CASE Overflow \/ \E b \in Batches : AskTools(b)
  <2>1. plan' \in PlanOf(iteration) /\ loopPc = "call"
    BY <1>8 DEF Overflow, AskTools
  <2>2. NotBegun(plan)
    BY <2>1 DEF PlanOk
  <2> QED BY <1>0, <2>1, <2>2, NewPlanOk DEF PlanOk
<1>9. CASE EndBatch
  <2>1. loopPc = "tools" /\ retryAt = 0 /\ (plan' = plan \/ plan' \in Planned(plan, gathered))
    BY <1>9 DEF EndBatch
  <2>2. NotBegun(plan)
    BY <2>1 DEF PlanOk
  <2> QED BY <1>0, <2>1, <2>2, PlannedOk DEF PlanOk
<1> QED BY <1>2, <1>3, <1>4, <1>5, <1>6, <1>7, <1>8, <1>9 DEF LoopNext

LEMMA AnswerKept == ASSUME BudgetsOk, AnswerOk, LoopNext PROVE AnswerOk'
<1> DEFINE Late == {"remember", "done"}
<1>1. ASSUME UNCHANGED <<finals, remembered>>, text' \in Texts, loopPc \notin Late, loopPc' \notin {"final", "remember", "done"}
      PROVE  AnswerOk'
  BY <1>1 DEF AnswerOk
<1>2. CASE SetUp \/ LeaveLoop \/ CallFails \/ StartIteration
  BY <1>1, <1>2 DEF SetUp, LeaveLoop, CallFails, StartIteration, LoopGoes, answerVars, AnswerOk
<1>3. CASE Conclude \/ ApplyGates
  BY <1>1, <1>3 DEF Conclude, ApplyGates, LoopGoes, AnswerOk, Texts
<1>4. CASE Reflect \/ RetryText \/ RetryStops
  BY <1>1, <1>4 DEF Reflect, RetryText, RetryStops, LoopGoes, answerVars, AnswerOk, Texts
<1>5. CASE RunTool \/ BlockTool \/ CancelTool
  BY <1>1, <1>5 DEF RunTool, BlockTool, CancelTool, InBatch, LoopGoes, answerVars, AnswerOk
<1>6. CASE EndBatch \/ EndRetryBatch
  BY <1>1, <1>6 DEF EndBatch, EndRetryBatch, LoopGoes, answerVars, AnswerOk
<1>7. CASE Stop \/ Overflow
  BY <1>1, <1>7 DEF Stop, Overflow, LoopGoes, answerVars, AnswerOk, Texts
<1>8. CASE \E b \in Batches : AskTools(b) \/ RetryTools(b)
  BY <1>1, <1>8 DEF AskTools, RetryTools, LoopGoes, answerVars, AnswerOk
<1>9. CASE Shape
  BY <1>9 DEF Shape, Verified, LoopGoes, AnswerOk, Texts
<1>10. CASE SendFinal
  BY <1>10 DEF SendFinal, LoopGoes, AnswerOk
<1>11. CASE Remember
  BY <1>11 DEF Remember, LoopGoes, AnswerOk
<1> QED BY <1>2, <1>3, <1>4, <1>5, <1>6, <1>7, <1>8, <1>9, <1>10, <1>11 DEF LoopNext

\* The tools of a batch are tools.
LEMMA BatchTools ==
    ASSUME ConversationOk, loopPc = "tools"
    PROVE  batch \in Batches /\ Len(batch) \in Nat /\ \A k \in 1 .. Len(batch) : batch[k] \in ToolNames
<1>1. batch \in Batches
  BY DEF ConversationOk
<1>2. batch \in Seq(ToolNames)
  BY <1>1, LoopAssumption
<1> QED BY <1>1, <1>2

LEMMA ToolsKept == ASSUME BudgetsOk, ConversationOk, ToolsOk, LoopNext PROVE ToolsOk'
<1>1. CASE UNCHANGED <<signatures, outcomes, permitted, ran>>
  BY <1>1 DEF ToolsOk, ToolBudgetFinal
<1>2. CASE RunTool
  <2>1. /\ InBatch /\ permitted' = permitted \cup {Tool} /\ UNCHANGED <<signatures, outcomes>>
        /\ \E failed \in BOOLEAN : ran' = ran \cup {<<Tool, ~failed, toolCalls <= MaxToolCalls>>}
    BY <1>2 DEF RunTool, budgets
  <2>2. Tool \in ToolNames
    <3>1. gathered \in Seq(BOOLEAN) /\ loopPc = "tools" /\ Len(gathered) < Len(batch)
      BY <2>1 DEF ConversationOk, InBatch
    <3>2. Len(gathered) + 1 \in 1 .. Len(batch)
      BY <3>1, BatchTools
    <3> QED BY <3>1, <3>2, BatchTools DEF Tool
  <2>3. toolCalls <= MaxToolCalls
    BY <2>1 DEF InBatch, BudgetsOk
  <2>4. ToolBudgetFinal'
    <3>1. PICK failed \in BOOLEAN : ran' = ran \cup {<<Tool, ~failed, toolCalls <= MaxToolCalls>>}
      BY <2>1
    <3> DEFINE call == <<Tool, ~failed, toolCalls <= MaxToolCalls>>
    <3>2. call[3]
      BY <2>3
    <3> HIDE DEF call
    <3>3. ran' = ran \cup {call}
      BY <3>1 DEF call
    <3> QED BY <3>2, <3>3 DEF ToolsOk, ToolBudgetFinal
  <2> QED BY <2>1, <2>2, <2>4 DEF ToolsOk
<1>3. CASE EndBatch
  <2>1. /\ loopPc = "tools" /\ Len(gathered) = Len(batch) /\ UNCHANGED <<permitted, ran>>
        /\ outcomes' = outcomes \cup {<<batch[k], gathered[k]>> : k \in DOMAIN batch}
        /\ signatures' = signatures \/ signatures' = Append(signatures, batch)
    BY <1>3 DEF EndBatch
  <2>2. \A k \in DOMAIN batch : batch[k] \in ToolNames /\ gathered[k] \in BOOLEAN
    <3>1. batch \in Seq(ToolNames) /\ gathered \in Seq(BOOLEAN)
      BY <2>1, LoopAssumption DEF ConversationOk
    <3> QED BY <2>1, <3>1
  <2>3. outcomes' \subseteq ToolNames \X BOOLEAN
    BY <2>1, <2>2 DEF ToolsOk
  <2>4. signatures' \in Seq(Batches)
    BY <2>1, BatchTools DEF ToolsOk
  <2> QED BY <2>1, <2>3, <2>4 DEF ToolsOk, ToolBudgetFinal
<1>4. CASE SetUp \/ LeaveLoop \/ CallFails \/ StartIteration \/ Conclude \/ ApplyGates
  BY <1>1, <1>4 DEF SetUp, LeaveLoop, CallFails, StartIteration, Conclude, ApplyGates, budgets
<1>5. CASE Shape \/ SendFinal \/ Remember \/ Reflect \/ RetryText \/ RetryStops
  BY <1>1, <1>5 DEF Shape, SendFinal, Remember, Reflect, RetryText, RetryStops, budgets
<1>6. CASE BlockTool \/ CancelTool \/ EndRetryBatch \/ Stop \/ Overflow
  BY <1>1, <1>6 DEF BlockTool, CancelTool, EndRetryBatch, Stop, Overflow, budgets
<1>7. CASE \E b \in Batches : AskTools(b) \/ RetryTools(b)
  BY <1>1, <1>7 DEF AskTools, RetryTools, budgets
<1> QED BY <1>2, <1>3, <1>4, <1>5, <1>6, <1>7 DEF LoopNext

-----------------------------------------------------------------------------
(* AgentLoop: the theorem *)

LEMMA LoopInitInv == LoopInit => LoopInv
<1> SUFFICES ASSUME LoopInit PROVE LoopInv
  OBVIOUS
<1>1. BudgetsOk
  <2>1. offered \in BOOLEAN /\ exhausted \in BOOLEAN /\ steered \in BOOLEAN
    BY DEF LoopInit
  <2>2. loopPc = "setup" /\ iteration = 0 /\ retryAt = 0 /\ passes = 0 /\ toolCalls = 0
    BY DEF LoopInit
  <2>3. MaxIterations \in Nat /\ MaxToolCalls \in Nat /\ RetryCalls \in Nat /\ MaxReflections \in Nat
    BY LoopAssumption
  <2>4. /\ loopPc \in LoopPcs /\ iteration \in 0 .. MaxIterations + 1 /\ retryAt \in 0 .. RetryCalls
        /\ passes \in 0 .. MaxReflections /\ toolCalls \in Nat
        /\ iteration <= MaxIterations /\ toolCalls <= MaxToolCalls /\ ~(retryAt > 0)
    BY <2>2, <2>3 DEF LoopPcs
  <2> QED BY <2>1, <2>2, <2>4 DEF BudgetsOk
<1>2. ConversationOk
  <2>1. Message("system") \in MessagesOf /\ Message("user") \in MessagesOf /\ Message("system").role = "system"
        /\ Message("user").role = "user"
    BY DEF Message, MessagesOf, Ids
  <2>2. /\ messages \in Seq(MessagesOf) /\ Len(messages) = 2 /\ messages[1].role = "system"
        /\ messages[2].role = "user" /\ messages # <<>>
    BY <2>1 DEF LoopInit
  <2>3. Answered(messages)
    BY <2>2 DEF Answered
  <2> QED BY <2>2, <2>3 DEF LoopInit, ConversationOk
<1>3. PlanOk
  <2>1. plan.steps = <<>> /\ plan \in Plans /\ Len(plan.steps) = 0 /\ PlanSize \in Nat
    BY LoopAssumption DEF LoopInit, Plans
  <2> QED BY <2>1 DEF PlanOk, InOrder, NotBegun
<1>4. AnswerOk
  BY DEF LoopInit, AnswerOk, Texts
<1>5. ToolsOk
  BY DEF LoopInit, ToolsOk, ToolBudgetFinal
<1> QED BY <1>1, <1>2, <1>3, <1>4, <1>5 DEF LoopInv

LEMMA LoopInductive == LoopInv /\ [LoopNext]_loopVars => LoopInv'
<1> SUFFICES ASSUME LoopInv, [LoopNext]_loopVars PROVE LoopInv'
  OBVIOUS
<1>1. CASE LoopNext
  <2>1. batch \in Batches \cup {<<>>}
    BY DEF LoopInv, ConversationOk
  <2> QED BY <1>1, <2>1, BudgetsKept, ConversationKept, PlanKept, AnswerKept, ToolsKept DEF LoopInv
<1>2. CASE UNCHANGED loopVars
  <2>1. UNCHANGED <<loopPc, messages, batch, gathered, iteration, toolCalls, offered, exhausted, steered, signatures,
                    retryAt, plan, outcomes, permitted, passes, text, finals, remembered, ran>>
    BY <1>2 DEF loopVars, conversation, budgets, answerVars
  <2>2. BudgetsOk' /\ ConversationOk'
    BY <2>1 DEF LoopInv, BudgetsOk, ConversationOk
  <2>3. PlanOk' /\ AnswerOk' /\ ToolsOk'
    BY <2>1 DEF LoopInv, PlanOk, AnswerOk, ToolsOk, ToolBudgetFinal
  <2> QED BY <2>2, <2>3 DEF LoopInv
<1> QED BY <1>1, <1>2

LEMMA LoopInvSound == LoopInv => RunSound
<1> SUFFICES ASSUME LoopInv PROVE RunSound
  OBVIOUS
<1>1. plan \in Plans /\ plan.at \in 0 .. PlanSize /\ plan.replans \in 0 .. MaxReplans
      /\ DOMAIN plan.steps = 1 .. Len(plan.steps) /\ \A k \in 1 .. Len(plan.steps) : plan.steps[k] \in StepStates
  BY PlanParts DEF LoopInv, PlanOk
<1>2. messages \in Seq(MessagesOf) /\ DOMAIN messages = 1 .. Len(messages)
  BY LenProperties DEF LoopInv, ConversationOk
<1>3. LoopTypeOK
  <2>1. \A i \in DOMAIN messages : messages[i].role \in {"system", "user", "call", "tool"}
    <3>1. \A i \in DOMAIN messages : messages[i] \in MessagesOf
      BY <1>2, ElementOfSeq
    <3> QED BY <3>1 DEF MessagesOf
  <2>2. Range(plan.steps) \subseteq {"pending", "in_progress", "completed", "failed"}
    BY <1>1 DEF Range, StepStates
  <2> QED BY <1>1, <2>1, <2>2 DEF LoopTypeOK, LoopInv, BudgetsOk, LoopPcs, ConversationOk, AnswerOk, ToolsOk
<1>4. CallsAnswered
  <2> SUFFICES ASSUME loopPc \in {"call", "after", "retry", "verdict"} PROVE Answered(messages)
    BY <1>2 DEF CallsAnswered, Answered
  <2> QED BY DEF LoopInv, ConversationOk
<1>5. PlanInOrder
  <2>1. loopPc = "tools" /\ passes = 0 => retryAt = 0
    BY LoopAssumption DEF LoopInv, BudgetsOk
  <2>2. InOrder(plan) /\ (passes = 0 /\ loopPc \in {"top", "call", "tools"} => NotBegun(plan))
    BY <2>1 DEF LoopInv, PlanOk
  <2> QED BY <1>1, <2>2 DEF PlanInOrder, InOrder, NotBegun
<1>6. OneAnswer
  <2>1. CASE loopPc = "done"
    <3>1. finals = <<text>> /\ remembered = <<text>> /\ text # "empty"
      BY <2>1 DEF LoopInv, AnswerOk
    <3> QED BY <3>1 DEF OneAnswer, IsPrefix, Range
  <2>2. CASE loopPc = "remember"
    <3>1. finals = <<text>> /\ remembered = <<>> /\ text # "empty"
      BY <2>2 DEF LoopInv, AnswerOk
    <3> QED BY <2>2, <3>1 DEF OneAnswer, IsPrefix, Range
  <2>3. CASE loopPc \notin {"remember", "done"}
    <3>1. finals = <<>> /\ remembered = <<>>
      BY <2>3 DEF LoopInv, AnswerOk
    <3> QED BY <2>3, <3>1 DEF OneAnswer, IsPrefix, Range
  <2> QED BY <2>1, <2>2, <2>3
<1> QED BY <1>3, <1>4, <1>5, <1>6 DEF RunSound, LoopInv, ToolsOk

\* For any batches, tools, budgets and sizes of plans and tails: whenever the
\* model is called every tool call has all its results right behind it, no
\* tool runs once the tool budget is exceeded, the plan is worked through in
\* order, and at most one answer is given, which is what is remembered.
THEOREM RunSoundHolds == LoopSpec => []RunSound
<1>1. LoopInit => LoopInv
  BY LoopInitInv
<1>2. LoopInv /\ [LoopNext]_loopVars => LoopInv'
  BY LoopInductive
<1>3. LoopInv => RunSound
  BY LoopInvSound
<1> QED BY <1>1, <1>2, <1>3, PTL DEF LoopSpec

-----------------------------------------------------------------------------
(* BrowserPool: the inductive invariant *)

PoolEntries == [key : PoolKeys, ctx : Contexts]
PoolPlaces == {"new", "waiting", "starting", "evicting", "making", "using", "over"}

PoolCalls == [key : PoolKeys, at : PoolPlaces, ctx : Contexts \union {Nothing3}]

PoolShapes ==
    /\ browser \in {"none", "up", "crashed", "closed"}
    /\ open \in SUBSET Contexts /\ leaked \in SUBSET open
    /\ closing \in [Closers -> SUBSET Contexts]
    /\ poolLock \in Users \union {Nothing3}
    /\ user \in [Users -> PoolCalls]
    /\ shutAt \in {"no", "waiting", "closing", "done"}

\* A table: one context to a key and one key to a context.
TableOf(t) ==
    /\ t \in Seq(PoolEntries)
    /\ \A m, n \in 1 .. Len(t) : m # n => t[m].key # t[n].key /\ t[m].ctx # t[n].ctx

TableOk ==
    /\ TableOf(table) /\ Len(table) <= MaxContexts /\ idle \in 0 .. Len(table)
    /\ browser = "none" => table = <<>>
    /\ browser = "up" => \A n \in 1 .. Len(table) : table[n].ctx \in open

\* The lock is held in get_context; a context that is made is in no one's
\* hands yet, and one that is used has the key it was asked for by.
CallOk(u) ==
    /\ poolLock = u <=> user[u].at \in {"starting", "evicting", "making"}
    /\ user[u].at = "starting" => browser = "none"
    /\ user[u].at \in {"evicting", "making"} =>
         browser # "none" /\ \A n \in 1 .. Len(table) : table[n].key # user[u].key
    /\ user[u].at = "making" =>
         /\ Len(table) < MaxContexts /\ user[u].ctx \in Contexts
         /\ \A n \in 1 .. Len(table) : table[n].ctx # user[u].ctx
         /\ browser = "up" => user[u].ctx \in open
    /\ user[u].at = "using" =>
         /\ user[u].ctx \in Contexts
         /\ \A n \in 1 .. Len(table) : table[n].ctx = user[u].ctx => table[n].key = user[u].key
    /\ user[u].at \notin {"using", "making"} => user[u].ctx = Nothing3

CallsApart ==
    \A u, v \in Users : u # v /\ user[u].ctx = user[v].ctx /\ user[u].ctx \in Contexts =>
        user[u].at = "using" /\ user[v].at = "using" /\ user[u].key = user[v].key

OpenKept ==
    \A c \in open :
        \/ \E n \in 1 .. Len(table) : table[n].ctx = c
        \/ c \in leaked
        \/ \E k \in Closers : c \in closing[k]
        \/ \E u \in Users : user[u].at = "making" /\ user[u].ctx = c

\* No one closes it, and no one has lost it.
Untaken(c) == c \notin leaked /\ \A k \in Closers : c \notin closing[k]

ClosingOk ==
    /\ \A n \in 1 .. Len(table) : Untaken(table[n].ctx)
    /\ \A u \in Users : user[u].at = "making" => Untaken(user[u].ctx)
    /\ \A k \in Closers : \A c \in closing[k] : c \notin leaked /\ \A l \in Closers \ {k} : c \notin closing[l]

ShutOk ==
    /\ shutAt \in {"closing", "done"} => poolLock = Nothing3 /\ table = <<>>
    /\ shutAt = "done" => open = {}

PoolInv ==
    PoolShapes /\ TableOk /\ (\A u \in Users : CallOk(u)) /\ CallsApart /\ OpenKept /\ ClosingOk /\ ShutOk

-----------------------------------------------------------------------------
(* What happens to the table *)

\* A table with an entry less.
Less(t, n) ==
    /\ TableOf(t) /\ Len(t) = Len(table) - 1
    /\ \A k \in 1 .. Len(t) : \E m \in 1 .. Len(table) : m # n /\ t[k] = table[m]
    /\ \A m \in 1 .. Len(table) : m # n => \E k \in 1 .. Len(t) : t[k] = table[m]

LEMMA LessByPlaces ==
    ASSUME TableOf(table), NEW n \in 1 .. Len(table), NEW t \in Seq(PoolEntries),
           Len(t) = Len(table) - 1,
           \A k \in 1 .. Len(t) : t[k] = IF k < n THEN table[k] ELSE table[k + 1]
    PROVE  Less(t, n)
<1>0. table \in Seq(PoolEntries) /\ Len(table) \in Nat /\ Len(t) \in Nat
  BY DEF TableOf
<1> DEFINE f(k) == IF k < n THEN k ELSE k + 1
<1>1. \A k \in 1 .. Len(t) : f(k) \in 1 .. Len(table) /\ f(k) # n /\ t[k] = table[f(k)]
  BY <1>0
<1>2. \A k, l \in 1 .. Len(t) : k # l => f(k) # f(l)
  BY <1>0
<1>3. \A m \in 1 .. Len(table) : m # n => \E k \in 1 .. Len(t) : f(k) = m
  <2>1. ASSUME NEW m \in 1 .. Len(table), m # n PROVE \E k \in 1 .. Len(t) : f(k) = m
    <3>1. CASE m < n
      BY <1>0, <2>1, <3>1
    <3>2. CASE m > n
      <4>1. m - 1 \in 1 .. Len(t) /\ ~(m - 1 < n) /\ (m - 1) + 1 = m
        BY <1>0, <2>1, <3>2
      <4> QED
        BY <4>1
    <3> QED
      BY <1>0, <2>1, <3>1, <3>2
  <2> QED
    BY <2>1
<1> HIDE DEF f
<1>4. TableOf(t)
  <2>1. ASSUME NEW k \in 1 .. Len(t), NEW l \in 1 .. Len(t), k # l
        PROVE  t[k].key # t[l].key /\ t[k].ctx # t[l].ctx
    <3>1. f(k) \in 1 .. Len(table) /\ f(l) \in 1 .. Len(table) /\ f(k) # f(l)
      BY <1>1, <1>2, <2>1
    <3>2. t[k] = table[f(k)] /\ t[l] = table[f(l)]
      BY <1>1
    <3> QED
      BY <3>1, <3>2 DEF TableOf
  <2> QED
    BY <2>1 DEF TableOf
<1> QED
  BY <1>1, <1>3, <1>4 DEF Less

LEMMA RemovedFits ==
    ASSUME TableOf(table), NEW n \in 1 .. Len(table)
    PROVE  Less(RemoveAt(table, n), n)
<1>1. table \in Seq(PoolEntries) /\ Len(table) \in Nat
  BY DEF TableOf
<1> QED
  BY <1>1, RemoveAtProperties, LessByPlaces

LEMMA TailLess ==
    ASSUME TableOf(table), Len(table) > 0
    PROVE  Less(Tail(table), 1)
<1>1. table \in Seq(PoolEntries) /\ Len(table) \in Nat /\ table # <<>>
  BY DEF TableOf
<1>2. /\ Tail(table) \in Seq(PoolEntries) /\ Len(Tail(table)) = Len(table) - 1
      /\ \A k \in 1 .. Len(Tail(table)) : Tail(table)[k] = table[k + 1]
  BY <1>1, TailFits
<1>3. 1 \in 1 .. Len(table) /\ \A k \in 1 .. Len(Tail(table)) : ~(k < 1)
  BY <1>1
<1> QED
  BY <1>2, <1>3, LessByPlaces

\* A fresh entry at the end.
LEMMA AddedFits ==
    ASSUME NEW t, TableOf(t), NEW e \in PoolEntries,
           \A n \in 1 .. Len(t) : t[n].key # e.key /\ t[n].ctx # e.ctx
    PROVE  /\ TableOf(Append(t, e)) /\ Len(Append(t, e)) = Len(t) + 1
           /\ \A n \in 1 .. Len(t) : Append(t, e)[n] = t[n]
           /\ Append(t, e)[Len(t) + 1] = e
           /\ Len(t) \in Nat
<1>1. t \in Seq(PoolEntries) /\ Len(t) \in Nat
  BY DEF TableOf
<1>2. /\ Append(t, e) \in Seq(PoolEntries) /\ Len(Append(t, e)) = Len(t) + 1
      /\ \A n \in 1 .. Len(t) : Append(t, e)[n] = t[n]
      /\ Append(t, e)[Len(t) + 1] = e
  BY <1>1, AppendFits
<1> DEFINE u == Append(t, e)
<1>3. /\ u \in Seq(PoolEntries) /\ Len(u) = Len(t) + 1
      /\ \A n \in 1 .. Len(t) : u[n] = t[n]
      /\ u[Len(t) + 1] = e
  BY <1>2
<1> HIDE DEF u
<1>4. \A n \in 1 .. Len(u) : n \in 1 .. Len(t) \/ n = Len(t) + 1
  BY <1>1, <1>3
<1>5. \A m, n \in 1 .. Len(t) : m # n => t[m].key # t[n].key /\ t[m].ctx # t[n].ctx
  BY DEF TableOf
<1>6. ASSUME NEW m \in 1 .. Len(u), NEW n \in 1 .. Len(u), m # n
      PROVE  u[m].key # u[n].key /\ u[m].ctx # u[n].ctx
  <2>1. CASE m \in 1 .. Len(t) /\ n \in 1 .. Len(t)
    BY <1>3, <1>5, <1>6, <2>1
  <2>2. CASE m = Len(t) + 1
    BY <1>3, <1>4, <1>6, <2>2
  <2>3. CASE n = Len(t) + 1
    BY <1>3, <1>4, <1>6, <2>3
  <2> QED
    BY <1>4, <2>1, <2>2, <2>3
<1>7. TableOf(u)
  BY <1>3, <1>6 DEF TableOf
<1> QED
  BY <1>1, <1>2, <1>7 DEF u

\* An entry is moved to the end: the same entries.
LEMMA MovedFits ==
    ASSUME TableOf(table), NEW n \in 1 .. Len(table)
    PROVE  LET t == Append(RemoveAt(table, n), table[n])
           IN  /\ TableOf(t) /\ Len(t) = Len(table)
               /\ \A k \in 1 .. Len(t) : \E m \in 1 .. Len(table) : t[k] = table[m]
               /\ \A m \in 1 .. Len(table) : \E k \in 1 .. Len(t) : t[k] = table[m]
<1> DEFINE rest == RemoveAt(table, n)
           t == Append(rest, table[n])
<1>1. table \in Seq(PoolEntries) /\ Len(table) \in Nat /\ table[n] \in PoolEntries
  BY DEF TableOf
<1>2. Less(rest, n)
  BY RemovedFits
<1> HIDE DEF rest
<1>3. ASSUME NEW k \in 1 .. Len(rest) PROVE rest[k].key # table[n].key /\ rest[k].ctx # table[n].ctx
  <2>1. PICK m \in 1 .. Len(table) : m # n /\ rest[k] = table[m]
    BY <1>2 DEF Less
  <2> QED
    BY <2>1 DEF TableOf
<1>4. /\ TableOf(t) /\ Len(t) = Len(rest) + 1 /\ Len(rest) \in Nat
      /\ \A k \in 1 .. Len(rest) : t[k] = rest[k]
      /\ t[Len(rest) + 1] = table[n]
  BY <1>1, <1>2, <1>3, AddedFits DEF Less
<1> HIDE DEF t
<1>5. Len(t) = Len(table) /\ Len(rest) + 1 = Len(table)
  BY <1>1, <1>2, <1>4 DEF Less
<1>6. ASSUME NEW k \in 1 .. Len(t) PROVE \E m \in 1 .. Len(table) : t[k] = table[m]
  <2>1. k \in 1 .. Len(rest) \/ k = Len(rest) + 1
    BY <1>4
  <2> QED
    BY <1>2, <1>4, <2>1 DEF Less
<1>7. ASSUME NEW m \in 1 .. Len(table) PROVE \E k \in 1 .. Len(t) : t[k] = table[m]
  <2>1. CASE m = n
    <3>1. Len(rest) + 1 \in 1 .. Len(t)
      BY <1>4
    <3> QED
      BY <1>4, <2>1, <3>1
  <2>2. CASE m # n
    <3>1. PICK k \in 1 .. Len(rest) : rest[k] = table[m]
      BY <1>2, <2>2 DEF Less
    <3>2. k \in 1 .. Len(t)
      BY <1>4
    <3> QED
      BY <1>4, <3>1, <3>2
  <2> QED
    BY <2>1, <2>2
<1>8. /\ TableOf(t) /\ Len(t) = Len(table)
      /\ \A k \in 1 .. Len(t) : \E m \in 1 .. Len(table) : t[k] = table[m]
      /\ \A m \in 1 .. Len(table) : \E k \in 1 .. Len(t) : t[k] = table[m]
  BY <1>4, <1>5, <1>6, <1>7
<1> QED
  BY <1>8 DEF t, rest

\* The first n entries are taken out.
LEMMA RestFits ==
    ASSUME TableOf(table), NEW n \in 0 .. Len(table)
    PROVE  LET t == SubSeq(table, n + 1, Len(table))
           IN  /\ TableOf(t) /\ Len(t) = Len(table) - n
               /\ \A k \in 1 .. Len(t) : n + k \in 1 .. Len(table) /\ t[k] = table[n + k]
<1> DEFINE t == SubSeq(table, n + 1, Len(table))
<1>1. table \in Seq(PoolEntries) /\ Len(table) \in Nat
  BY DEF TableOf
<1>2. /\ t \in Seq(PoolEntries) /\ Len(t) = Len(table) - n
      /\ \A k \in 1 .. Len(table) - n : t[k] = table[n + k]
  BY <1>1, SubSeqProperties
<1> HIDE DEF t
<1>3. \A k \in 1 .. Len(t) : n + k \in 1 .. Len(table) /\ t[k] = table[n + k]
  BY <1>1, <1>2
<1>4. \A k, l \in 1 .. Len(t) : k # l => n + k # n + l
  BY <1>1, <1>2
<1>5. ASSUME NEW k \in 1 .. Len(t), NEW l \in 1 .. Len(t), k # l
      PROVE  t[k].key # t[l].key /\ t[k].ctx # t[l].ctx
  <2>1. /\ n + k \in 1 .. Len(table) /\ n + l \in 1 .. Len(table) /\ n + k # n + l
        /\ t[k] = table[n + k] /\ t[l] = table[n + l]
    BY <1>3, <1>4, <1>5
  <2> QED
    BY <2>1 DEF TableOf
<1>6. TableOf(t)
  BY <1>2, <1>5 DEF TableOf
<1> QED
  BY <1>1, <1>2, <1>3, <1>6 DEF t

LEMMA PlaceFits ==
    ASSUME TableOf(table), NEW key \in KeysIn
    PROVE  /\ PlaceOf(key) \in 1 .. Len(table) /\ table[PlaceOf(key)].key = key
           /\ table[PlaceOf(key)] \in PoolEntries
<1>1. table \in Seq(PoolEntries) /\ DOMAIN table = 1 .. Len(table)
  BY DEF TableOf
<1>2. \E n \in DOMAIN table : table[n].key = key
  BY DEF KeysIn
<1>3. PlaceOf(key) \in DOMAIN table /\ table[PlaceOf(key)].key = key
  BY <1>2 DEF PlaceOf
<1> QED
  BY <1>1, <1>3

LEMMA InTableFits ==
    ASSUME TableOf(table)
    PROVE  /\ InTable = {table[n].ctx : n \in 1 .. Len(table)}
           /\ KeysIn = {table[n].key : n \in 1 .. Len(table)}
<1>1. DOMAIN table = 1 .. Len(table)
  BY DEF TableOf
<1> QED
  BY <1>1 DEF InTable, KeysIn

-----------------------------------------------------------------------------
(* What a step leaves to the calls *)

LEMMA CallFacts ==
    ASSUME PoolInv, NEW u \in Users
    PROVE  /\ user[u].key \in PoolKeys /\ user[u].at \in PoolPlaces /\ user[u].ctx \in Contexts \union {Nothing3}
           /\ CallOk(u) /\ u # Nothing3
           /\ user[u].at \in {"starting", "evicting", "making"} => poolLock = u
           /\ TableOf(table) /\ Len(table) \in Nat
<1>1. user[u].key \in PoolKeys /\ user[u].at \in PoolPlaces /\ user[u].ctx \in Contexts \union {Nothing3}
  BY DEF PoolInv, PoolShapes, PoolCalls
<1>2. CallOk(u) /\ u # Nothing3 /\ (user[u].at \in {"starting", "evicting", "making"} => poolLock = u)
  BY BrowserPoolAssumption DEF PoolInv, CallOk
<1>3. TableOf(table) /\ Len(table) \in Nat
  BY DEF PoolInv, TableOk, TableOf
<1> QED
  BY <1>1, <1>2, <1>3

\* The calls that do not step, when the one that does had the lock or no one
\* has: what they use is still theirs, whatever the table has lost.
LEMMA OthersUse ==
    ASSUME PoolInv, NEW v \in Users, user'[v] = user[v],
           poolLock # v, poolLock' # v,
           \A k \in 1 .. Len(table') :
              \/ \E m \in 1 .. Len(table) : table'[k] = table[m]
              \/ table'[k].ctx # user[v].ctx
    PROVE  CallOk(v)'
<1>1. CallOk(v)
  BY DEF PoolInv
<1>2. user[v].at \notin {"starting", "evicting", "making"}
  BY <1>1 DEF CallOk
<1>3. ASSUME user[v].at = "using", NEW n \in 1 .. Len(table'), table'[n].ctx = user[v].ctx
      PROVE  table'[n].key = user[v].key
  BY <1>1, <1>3 DEF CallOk
<1> QED
  BY <1>1, <1>2, <1>3 DEF CallOk

\* One call steps to a place where it has no context.
LEMMA ApartWithout ==
    ASSUME PoolInv, NEW u \in Users, NEW k, NEW a, user' = [user EXCEPT ![u] = Visit(k, a, Nothing3)]
    PROVE  CallsApart'
<1> DEFINE r == Visit(k, a, Nothing3)
<1>1. r.ctx = Nothing3 /\ Nothing3 \notin Contexts
  BY BrowserPoolAssumption DEF Visit
<1> HIDE DEF r
<1>2. \A v \in Users : user'[v] = IF v = u THEN r ELSE user[v]
  BY DEF r, PoolInv, PoolShapes
<1> QED
  BY <1>1, <1>2 DEF PoolInv, CallsApart

LEMMA CallParts ==
    ASSUME NEW k \in PoolKeys, NEW a \in PoolPlaces, NEW c \in Contexts \union {Nothing3}
    PROVE  /\ Visit(k, a, c) \in PoolCalls
           /\ Visit(k, a, c).key = k /\ Visit(k, a, c).at = a /\ Visit(k, a, c).ctx = c
BY DEF Visit, PoolCalls

LEMMA CallsAre ==
    ASSUME PoolInv PROVE user \in [Users -> PoolCalls]
BY DEF PoolInv, PoolShapes

\* A call that the step does not touch, while pool and lock stay.
LEMMA OthersRest ==
    ASSUME PoolInv, NEW v \in Users, user'[v] = user[v], poolLock' = poolLock, table' = table,
           browser = "none" <=> browser' = "none",
           browser' = "up" => browser = "up" /\ open' = open
    PROVE  CallOk(v)'
<1>1. CallOk(v)
  BY DEF PoolInv
<1> QED
  BY <1>1 DEF CallOk

LEMMA LockHolder ==
    ASSUME PoolInv, NEW u \in Users, user[u].at \in {"starting", "evicting", "making"}
    PROVE  /\ poolLock = u /\ shutAt \notin {"closing", "done"}
           /\ \A v \in Users : v # u => user[v].at \notin {"starting", "evicting", "making"}
<1>1. poolLock = u /\ u # Nothing3
  BY CallFacts
<1>2. \A v \in Users : v # u => user[v].at \notin {"starting", "evicting", "making"}
  BY <1>1, CallFacts
<1>3. shutAt \notin {"closing", "done"}
  BY <1>1 DEF PoolInv, ShutOk
<1> QED
  BY <1>1, <1>2, <1>3

LEMMA LockFree ==
    ASSUME PoolInv, poolLock = Nothing3
    PROVE  \A v \in Users : user[v].at \notin {"starting", "evicting", "making"}
BY CallFacts

\* Contexts that leave the table, or a call that makes one, go to a closer or
\* are lost.
LEMMA ClosingGrows ==
    ASSUME PoolInv, NEW M \in SUBSET Contexts, \A c \in M : Untaken(c),
           \A n \in 1 .. Len(table') : Untaken(table'[n].ctx) /\ table'[n].ctx \notin M,
           \A v \in Users : user'[v].at = "making" => Untaken(user'[v].ctx) /\ user'[v].ctx \notin M,
           \/ closing' = closing /\ leaked' \in SUBSET (leaked \union M)
           \/ leaked' = leaked /\ \E k \in Closers : closing' = [closing EXCEPT ![k] = @ \union M]
    PROVE  ClosingOk'
<1>0. closing \in [Closers -> SUBSET Contexts] /\ ClosingOk
  BY DEF PoolInv, PoolShapes
<1>1. CASE closing' = closing /\ leaked' \in SUBSET (leaked \union M)
  BY <1>0, <1>1 DEF ClosingOk, Untaken
<1>2. ASSUME leaked' = leaked, NEW k \in Closers, closing' = [closing EXCEPT ![k] = @ \union M]
      PROVE  ClosingOk'
  <2>1. \A l \in Closers : closing'[l] = IF l = k THEN closing[l] \union M ELSE closing[l]
    BY <1>0, <1>2
  <2>2. ASSUME NEW l \in Closers, NEW c \in closing'[l]
        PROVE  c \notin leaked' /\ \A m \in Closers \ {l} : c \notin closing'[m]
    BY <1>0, <1>2, <2>1, <2>2 DEF ClosingOk, Untaken
  <2> QED
    BY <1>2, <2>1, <2>2 DEF ClosingOk, Untaken
<1> QED
  BY <1>1, <1>2

LEMMA ClosingRests ==
    ASSUME PoolInv, closing' = closing, leaked' \in SUBSET leaked,
           \A n \in 1 .. Len(table') : \E m \in 1 .. Len(table) : table'[n] = table[m],
           \A v \in Users : user'[v].at = "making" => user'[v] = user[v]
    PROVE  ClosingOk'
<1>1. ClosingOk
  BY DEF PoolInv
<1> QED
  BY <1>1 DEF ClosingOk, Untaken

\* What a closer has to close becomes less, and some of it may be lost.
LEMMA ClosingShrinks ==
    ASSUME PoolInv, NEW k \in Closers, NEW M \in SUBSET closing[k],
           closing' = [closing EXCEPT ![k] = @ \ M], leaked' \in SUBSET (leaked \union M),
           UNCHANGED <<table, user>>
    PROVE  ClosingOk'
<1>0. closing \in [Closers -> SUBSET Contexts] /\ ClosingOk
  BY DEF PoolInv, PoolShapes
<1>1. \A l \in Closers : closing'[l] = IF l = k THEN closing[l] \ M ELSE closing[l]
  BY <1>0
<1>2. ASSUME NEW c, Untaken(c) PROVE Untaken(c)'
  BY <1>1, <1>2 DEF Untaken
<1>3. ASSUME NEW l \in Closers, NEW c \in closing'[l]
      PROVE  c \notin leaked' /\ \A m \in Closers \ {l} : c \notin closing'[m]
  BY <1>0, <1>1, <1>3 DEF ClosingOk
<1> QED
  BY <1>0, <1>2, <1>3 DEF ClosingOk

-----------------------------------------------------------------------------
(* One lemma for each step of the pool *)

LEMMA PoolStarts ==
    ASSUME PoolInit PROVE PoolInv
<1>1. /\ browser = "none" /\ table = <<>> /\ open = {} /\ poolLock = Nothing3
      /\ shutAt = "no" /\ idle = 0 /\ closing = [k \in Closers |-> {}] /\ leaked = {}
  BY DEF PoolInit
<1>2. user = [u \in Users |-> Visit(DefaultKey, "new", Nothing3)]
  BY DEF PoolInit
<1>3. /\ \A u \in Users : user[u].key = DefaultKey /\ user[u].at = "new" /\ user[u].ctx = Nothing3
      /\ user \in [Users -> PoolCalls]
  BY <1>2, BrowserPoolAssumption DEF Visit, PoolPlaces, PoolCalls
<1>4. PoolShapes
  BY <1>1, <1>3 DEF PoolShapes
<1>5. TableOk
  <2>1. <<>> \in Seq(PoolEntries) /\ Len(<<>>) = 0
    OBVIOUS
  <2>2. MaxContexts \in Nat
    BY BrowserPoolAssumption
  <2> QED
    BY <1>1, <2>1, <2>2 DEF TableOk, TableOf
<1>6. \A u \in Users : CallOk(u)
  BY <1>1, <1>3, BrowserPoolAssumption DEF CallOk
<1>7. CallsApart
  BY <1>3, BrowserPoolAssumption DEF CallsApart
<1>8. OpenKept /\ ClosingOk /\ ShutOk
  BY <1>1, <1>3 DEF OpenKept, ClosingOk, ShutOk
<1> QED
  BY <1>4, <1>5, <1>6, <1>7, <1>8 DEF PoolInv

\* What only moves one call, without a context, outside the pool.
LEMMA OutsideStep ==
    ASSUME PoolInv, NEW u \in Users, NEW k \in PoolKeys, NEW a \in {"waiting", "over"},
           user[u].at \in {"new", "waiting", "using"},
           user' = [user EXCEPT ![u] = Visit(k, a, Nothing3)],
           UNCHANGED <<browser, table, open, poolLock, shutAt, idle, closing, leaked>>
    PROVE  PoolInv'
<1>0. a \in PoolPlaces /\ Nothing3 \in Contexts \union {Nothing3} /\ Nothing3 \notin Contexts
  BY BrowserPoolAssumption DEF PoolPlaces
<1>1. /\ user' \in [Users -> PoolCalls]
      /\ user'[u].key = k /\ user'[u].at = a /\ user'[u].ctx = Nothing3
      /\ \A v \in Users : v # u => user'[v] = user[v]
  BY <1>0, CallParts, CallsAre
<1>2. PoolShapes'
  BY <1>1 DEF PoolInv, PoolShapes
<1>3. TableOk'
  BY DEF PoolInv, TableOk, TableOf
<1>4. CallOk(u)'
  <2>1. poolLock # u
    BY DEF PoolInv, CallOk
  <2> QED
    BY <1>1, <2>1 DEF CallOk
<1>5. ASSUME NEW v \in Users, v # u PROVE CallOk(v)'
  BY <1>1, <1>5, OthersRest
<1>6. CallsApart'
  BY ApartWithout
<1>7. OpenKept'
  <2>1. ASSUME NEW c \in open, NEW v \in Users, user[v].at = "making", user[v].ctx = c
        PROVE  v # u
    BY <2>1
  <2> QED
    BY <1>1, <2>1 DEF PoolInv, OpenKept
<1>8. ShutOk' /\ ClosingOk'
  <2>1. \A v \in Users : user'[v].at = "making" => user'[v] = user[v]
    BY <1>1
  <2> QED
    BY <2>1, ClosingRests DEF PoolInv, ShutOk
<1> QED
  BY <1>2, <1>3, <1>4, <1>5, <1>6, <1>7, <1>8 DEF PoolInv

LEMMA CallToolKeeps ==
    ASSUME PoolInv, NEW u \in Users, NEW key \in PoolKeys, CallTool2(u, key) PROVE PoolInv'
  BY OutsideStep DEF CallTool2

LEMMA UsePageKeeps ==
    ASSUME PoolInv, NEW u \in Users, UsePage(u) PROVE PoolInv'
  BY BrowserPoolAssumption, OutsideStep DEF UsePage, Ends

LEMMA EnterClosedKeeps ==
    ASSUME PoolInv, NEW u \in Users, EnterPool(u), shutAt # "no" PROVE PoolInv'
  BY BrowserPoolAssumption, OutsideStep DEF EnterPool, Ends

LEMMA EnterFirstKeeps ==
    ASSUME PoolInv, NEW u \in Users, EnterPool(u), shutAt = "no", browser = "none" PROVE PoolInv'
<1>0. /\ user[u].at = "waiting" /\ poolLock = Nothing3
      /\ UNCHANGED <<browser, table, open, shutAt, idle, closing, leaked>>
  BY DEF EnterPool
<1>1. user[u].key \in PoolKeys /\ user[u].ctx = Nothing3 /\ u # Nothing3 /\ Nothing3 \notin Contexts
  BY <1>0, CallFacts, BrowserPoolAssumption DEF CallOk
<1>2. user' = [user EXCEPT ![u] = Visit(user[u].key, "starting", Nothing3)] /\ poolLock' = u
  BY <1>1 DEF EnterPool, To
<1>3. "starting" \in PoolPlaces /\ Nothing3 \in Contexts \union {Nothing3}
  BY DEF PoolPlaces
<1>4. /\ user' \in [Users -> PoolCalls]
      /\ user'[u].at = "starting" /\ user'[u].ctx = Nothing3
      /\ \A v \in Users : v # u => user'[v] = user[v]
  BY <1>1, <1>2, <1>3, CallParts, CallsAre
<1>5. PoolShapes'
  BY <1>0, <1>2, <1>4 DEF PoolInv, PoolShapes
<1>6. TableOk'
  BY <1>0 DEF PoolInv, TableOk, TableOf
<1>7. CallOk(u)'
  BY <1>0, <1>2, <1>4 DEF CallOk
<1>8. ASSUME NEW v \in Users, v # u PROVE CallOk(v)'
  <2>1. v # Nothing3
    BY BrowserPoolAssumption
  <2>2. \A k \in 1 .. Len(table') : \E m \in 1 .. Len(table) : table'[k] = table[m]
    BY <1>0
  <2> QED
    BY <1>0, <1>2, <1>4, <1>8, <2>1, <2>2, OthersUse
<1>9. CallsApart'
  BY <1>2, ApartWithout
<1>10. OpenKept' /\ ClosingOk'
  BY <1>0, <1>4, ClosingRests DEF PoolInv, OpenKept
<1>11. ShutOk'
  BY <1>0 DEF ShutOk
<1> QED
  BY <1>4, <1>5, <1>6, <1>7, <1>8, <1>9, <1>10, <1>11 DEF PoolInv

LEMMA LockedOthers ==
    ASSUME PoolInv, NEW u \in Users, NEW v \in Users, v # u, user'[v] = user[v],
           poolLock \in {u, Nothing3}, poolLock' \in {u, Nothing3},
           \A k \in 1 .. Len(table') :
              \/ \E m \in 1 .. Len(table) : table'[k] = table[m]
              \/ table'[k].ctx # user[v].ctx
    PROVE  CallOk(v)'
<1>1. v # Nothing3
  BY BrowserPoolAssumption
<1> QED
  BY <1>1, OthersUse

\* An attempt ends under the lock, before it had a context.
LEMMA AttemptEnds ==
    ASSUME PoolInv, NEW u \in Users, user[u].at \in {"starting", "evicting"}, NEW k \in PoolKeys,
           user' = [user EXCEPT ![u] = Visit(k, "over", Nothing3)], poolLock' = Nothing3
    PROVE  /\ user' \in [Users -> PoolCalls]
           /\ \A v \in Users : v # u => user'[v] = user[v]
           /\ CallOk(u)' /\ CallsApart' /\ poolLock = u /\ user'[u].at = "over"
           /\ \A v \in Users : user[v].at = "making" => user'[v] = user[v]
<1>1. "over" \in PoolPlaces /\ Nothing3 \in Contexts \union {Nothing3} /\ u # Nothing3
  BY BrowserPoolAssumption DEF PoolPlaces
<1>2. /\ user' \in [Users -> PoolCalls]
      /\ user'[u].key = k /\ user'[u].at = "over" /\ user'[u].ctx = Nothing3
      /\ \A v \in Users : v # u => user'[v] = user[v]
  BY <1>1, CallParts, CallsAre
<1>3. CallOk(u)'
  <2>1. /\ poolLock' # u
        /\ user'[u].at \notin {"starting", "evicting", "making", "using"} /\ user'[u].ctx = Nothing3
    BY <1>1, <1>2
  <2> QED
    BY ONLY <2>1 DEF CallOk
<1>4. CallsApart'
  BY ApartWithout
<1> QED
  BY <1>2, <1>3, <1>4, LockHolder

LEMMA AttemptFailsBy ==
    ASSUME NEW u \in Users, Ends(u)
    PROVE  DefaultKey \in PoolKeys /\ user' = [user EXCEPT ![u] = Visit(DefaultKey, "over", Nothing3)]
BY BrowserPoolAssumption DEF Ends

LEMMA AttemptFails ==
    ASSUME PoolInv, NEW u \in Users, user[u].at \in {"starting", "evicting"},
           Ends(u), poolLock' = Nothing3,
           UNCHANGED <<browser, table, open, shutAt, idle, closing, leaked>>
    PROVE  PoolInv'
<1>1. /\ user' \in [Users -> PoolCalls]
      /\ \A v \in Users : v # u => user'[v] = user[v]
      /\ CallOk(u)' /\ CallsApart' /\ poolLock = u /\ user'[u].at = "over"
      /\ \A v \in Users : user[v].at = "making" => user'[v] = user[v]
  BY AttemptEnds, AttemptFailsBy
<1>2. PoolShapes'
  BY <1>1 DEF PoolInv, PoolShapes
<1>3. TableOk'
  BY DEF PoolInv, TableOk, TableOf
<1>4. ASSUME NEW v \in Users, v # u PROVE CallOk(v)'
  <2>1. \A k \in 1 .. Len(table') : \E m \in 1 .. Len(table) : table'[k] = table[m]
    OBVIOUS
  <2> QED
    BY <1>1, <1>4, <2>1, LockedOthers
<1>5. OpenKept' /\ ClosingOk'
  <2>1. \A v \in Users : user'[v].at = "making" => user'[v] = user[v]
    BY <1>1 DEF CallOk
  <2> QED
    BY <1>1, <2>1, ClosingRests DEF PoolInv, OpenKept
<1>6. ShutOk'
  BY DEF PoolInv, ShutOk
<1> QED
  BY <1>1, <1>2, <1>3, <1>4, <1>5, <1>6 DEF PoolInv

LEMMA StartFailsKeeps ==
    ASSUME PoolInv, NEW u \in Users, StartFails2(u) PROVE PoolInv'
  BY AttemptFails DEF StartFails2

LEMMA NewContextFailsKeeps ==
    ASSUME PoolInv, NEW u \in Users, NewContextFails(u) PROVE PoolInv'
  BY AttemptFails DEF NewContextFails

\* An entry leaves the table, and its context is closed or lost.
LEMMA LessOk ==
    ASSUME PoolInv, NEW n \in 1 .. Len(table), Less(table', n), TakeOut(n), browser' = browser,
           open' \in {open, open \ {table[n].ctx}}
    PROVE  TableOk'
<1>1. /\ TableOf(table) /\ Len(table) <= MaxContexts /\ idle \in 0 .. Len(table) /\ Len(table) \in Nat
      /\ browser = "none" => table = <<>>
      /\ browser = "up" => \A m \in 1 .. Len(table) : table[m].ctx \in open
  BY DEF PoolInv, TableOk, TableOf
<1>2. /\ TableOf(table') /\ Len(table') = Len(table) - 1
      /\ \A k \in 1 .. Len(table') : \E m \in 1 .. Len(table) : m # n /\ table'[k] = table[m]
  BY DEF Less
<1>3. Len(table') <= MaxContexts
  <2>1. MaxContexts \in Nat
    BY BrowserPoolAssumption
  <2> QED
    BY <1>1, <1>2, <2>1
<1>4. idle' \in 0 .. Len(table')
  BY <1>1, <1>2 DEF TakeOut
<1>5. browser # "none"
  BY <1>1
<1>6. ASSUME browser = "up", NEW k \in 1 .. Len(table') PROVE table'[k].ctx \in open'
  <2>1. PICK m \in 1 .. Len(table) : m # n /\ table'[k] = table[m]
    BY <1>2
  <2>2. table[m].ctx # table[n].ctx /\ table[m].ctx \in open
    BY <1>1, <1>6, <2>1 DEF TableOf
  <2> QED
    BY <2>1, <2>2
<1> QED
  BY <1>2, <1>3, <1>4, <1>5, <1>6 DEF TableOk

LEMMA LessKept ==
    ASSUME PoolInv, NEW n \in 1 .. Len(table), Less(table', n),
           open' \in SUBSET open, leaked \in SUBSET leaked',
           table[n].ctx \in open' => table[n].ctx \in leaked' \/ \E k \in Closers : table[n].ctx \in closing'[k],
           \A k \in Closers : closing[k] \in SUBSET closing'[k],
           \A v \in Users : user[v].at = "making" => user'[v] = user[v]
    PROVE  OpenKept'
<1>1. ASSUME NEW c \in open'
      PROVE  \/ \E k \in 1 .. Len(table') : table'[k].ctx = c
             \/ c \in leaked'
             \/ \E k \in Closers : c \in closing'[k]
             \/ \E v \in Users : user'[v].at = "making" /\ user'[v].ctx = c
  <2>1. \/ \E m \in 1 .. Len(table) : table[m].ctx = c
        \/ c \in leaked
        \/ \E k \in Closers : c \in closing[k]
        \/ \E v \in Users : user[v].at = "making" /\ user[v].ctx = c
    BY DEF PoolInv, OpenKept
  <2>2. ASSUME NEW m \in 1 .. Len(table), table[m].ctx = c
        PROVE  c \in leaked' \/ (\E k \in Closers : c \in closing'[k]) \/ \E k \in 1 .. Len(table') : table'[k].ctx = c
    <3>1. CASE m = n
      BY <2>2, <3>1
    <3>2. CASE m # n
      BY <2>2, <3>2 DEF Less
    <3> QED
      BY <3>1, <3>2
  <2> QED
    BY <2>1, <2>2
<1> QED
  BY <1>1 DEF OpenKept

\* What is taken out of the table is not in what is left of it.
LEMMA LessClosing ==
    ASSUME PoolInv, NEW n \in 1 .. Len(table), Less(table', n),
           \A v \in Users : user'[v].at = "making" => user[v].at = "making" /\ user'[v] = user[v],
           \/ closing' = closing /\ leaked' \in SUBSET (leaked \union {table[n].ctx})
           \/ leaked' = leaked /\ \E k \in Closers : closing' = [closing EXCEPT ![k] = @ \union {table[n].ctx}]
    PROVE  ClosingOk'
<1>1. TableOf(table) /\ ClosingOk /\ table[n] \in PoolEntries
  BY DEF PoolInv, TableOk, TableOf
<1>2. {table[n].ctx} \in SUBSET Contexts /\ Untaken(table[n].ctx)
  BY <1>1 DEF ClosingOk, PoolEntries
<1>3. ASSUME NEW k \in 1 .. Len(table') PROVE Untaken(table'[k].ctx) /\ table'[k].ctx # table[n].ctx
  <2>1. PICK m \in 1 .. Len(table) : m # n /\ table'[k] = table[m]
    BY DEF Less
  <2> QED
    BY <1>1, <2>1 DEF ClosingOk, TableOf
<1>4. ASSUME NEW v \in Users, user'[v].at = "making"
      PROVE  Untaken(user'[v].ctx) /\ user'[v].ctx # table[n].ctx
  BY <1>1, <1>4, CallFacts DEF ClosingOk, CallOk
<1> QED
  BY <1>2, <1>3, <1>4, ClosingGrows

LEMMA EvictFacts ==
    ASSUME PoolInv, NEW u \in Users, user[u].at = "evicting", ~HasSpace
    PROVE  /\ 1 \in 1 .. Len(table) /\ Less(Tail(table), 1) /\ poolLock = u
           /\ table[1].ctx \in Contexts
<1>1. TableOf(table) /\ Len(table) \in Nat /\ MaxContexts \in Nat \ {0}
  BY CallFacts, BrowserPoolAssumption
<1>2. Len(table) > 0
  BY <1>1 DEF HasSpace
<1>3. 1 \in 1 .. Len(table)
  BY <1>1, <1>2
<1>4. table[1] \in PoolEntries
  BY <1>3 DEF TableOf, PoolInv, TableOk
<1> QED
  BY <1>1, <1>2, <1>3, <1>4, TailLess, LockHolder DEF PoolEntries

LEMMA EvictOldestKeeps ==
    ASSUME PoolInv, NEW u \in Users, EvictOldest(u) PROVE PoolInv'
<1>0. /\ user[u].at = "evicting" /\ ~HasSpace
      /\ table' = Tail(table) /\ TakeOut(1)
      /\ UNCHANGED <<browser, poolLock, user, shutAt, closing>>
  BY DEF EvictOldest
<1>1. 1 \in 1 .. Len(table) /\ Less(table', 1) /\ poolLock = u /\ table[1].ctx \in Contexts
  BY <1>0, EvictFacts
<1>a. \/ open' = open \ {table[1].ctx} /\ leaked' = leaked
      \/ open' = open /\ leaked' = leaked \union ({table[1].ctx} \cap open)
  BY DEF EvictOldest, Abandons
<1>2. TableOk'
  <2>1. open' \in {open, open \ {table[1].ctx}}
    BY <1>a
  <2> QED
    BY <1>0, <1>1, <2>1, LessOk
<1>3. OpenKept' /\ ClosingOk'
  <2>1. /\ open' \in SUBSET open /\ leaked \in SUBSET leaked'
        /\ table[1].ctx \in open' => table[1].ctx \in leaked'
        /\ leaked' \in SUBSET (leaked \union {table[1].ctx})
    BY <1>a
  <2> QED
    BY <1>0, <1>1, <2>1, LessKept, LessClosing
<1>4. PoolShapes'
  <2>1. table[1].ctx \notin leaked
    BY <1>1 DEF PoolInv, ClosingOk, Untaken
  <2> QED
    BY <1>0, <1>a, <2>1 DEF PoolInv, PoolShapes
<1>5. CallOk(u)'
  <2>1. ASSUME NEW k \in 1 .. Len(table') PROVE table'[k].key # user[u].key
    <3>1. PICK m \in 1 .. Len(table) : table'[k] = table[m]
      BY <1>1 DEF Less
    <3>2. table[m].key # user[u].key
      BY <1>0, CallFacts DEF CallOk
    <3> QED
      BY <3>1, <3>2
  <2>2. /\ user'[u].at = "evicting" /\ user'[u].key = user[u].key /\ user'[u].ctx = user[u].ctx
        /\ poolLock' = u /\ browser' = browser
    BY <1>0, <1>1
  <2>3. browser # "none" /\ user[u].ctx = Nothing3
    BY <1>0, CallFacts DEF CallOk
  <2> QED
    BY <1>0, <2>1, <2>2, <2>3 DEF CallOk
<1>6. ASSUME NEW v \in Users, v # u PROVE CallOk(v)'
  <2>1. \A k \in 1 .. Len(table') : \E m \in 1 .. Len(table) : table'[k] = table[m]
    BY <1>1 DEF Less
  <2> QED
    BY <1>0, <1>1, <1>6, <2>1, LockedOthers
<1>7. CallsApart' /\ ShutOk'
  <2>1. shutAt \notin {"closing", "done"}
    BY <1>0, LockHolder
  <2> QED
    BY <1>0, <2>1 DEF PoolInv, CallsApart, ShutOk
<1> QED
  BY <1>2, <1>3, <1>4, <1>5, <1>6, <1>7 DEF PoolInv

LEMMA EvictBreaksOffKeeps ==
    ASSUME PoolInv, NEW u \in Users, EvictBreaksOff(u) PROVE PoolInv'
<1>0. /\ user[u].at = "evicting" /\ ~HasSpace
      /\ table' = Tail(table) /\ leaked' = leaked \union ({table[1].ctx} \cap open) /\ TakeOut(1)
      /\ Ends(u) /\ poolLock' = Nothing3
      /\ UNCHANGED <<browser, open, shutAt, closing>>
  BY DEF EvictBreaksOff, Abandons
<1>1. 1 \in 1 .. Len(table) /\ Less(table', 1) /\ table[1].ctx \in Contexts
  BY <1>0, EvictFacts
<1>2. /\ user' \in [Users -> PoolCalls]
      /\ \A v \in Users : v # u => user'[v] = user[v]
      /\ CallOk(u)' /\ CallsApart' /\ poolLock = u /\ user'[u].at = "over"
      /\ \A v \in Users : user[v].at = "making" => user'[v] = user[v]
  BY <1>0, AttemptEnds, AttemptFailsBy
<1>3. TableOk'
  BY <1>0, <1>1, LessOk
<1>4. OpenKept' /\ ClosingOk'
  <2>1. /\ open' \in SUBSET open /\ leaked \in SUBSET leaked'
        /\ table[1].ctx \in open' => table[1].ctx \in leaked'
        /\ leaked' \in SUBSET (leaked \union {table[1].ctx})
    BY <1>0
  <2>2. \A v \in Users : user'[v].at = "making" => user[v].at = "making" /\ user'[v] = user[v]
    BY <1>2
  <2> QED
    BY <1>0, <1>1, <1>2, <2>1, <2>2, LessKept, LessClosing
<1>5. PoolShapes'
  BY <1>0, <1>1, <1>2 DEF PoolInv, PoolShapes
<1>6. ASSUME NEW v \in Users, v # u PROVE CallOk(v)'
  <2>1. \A k \in 1 .. Len(table') : \E m \in 1 .. Len(table) : table'[k] = table[m]
    BY <1>1 DEF Less
  <2> QED
    BY <1>0, <1>2, <1>6, <2>1, LockedOthers
<1>7. ShutOk'
  <2>1. shutAt \notin {"closing", "done"}
    BY <1>0, LockHolder
  <2> QED
    BY <1>0, <2>1 DEF ShutOk
<1> QED
  BY <1>2, <1>3, <1>4, <1>5, <1>6, <1>7 DEF PoolInv

\* A context no one has and the table does not know.
LEMMA FreshFacts ==
    ASSUME PoolInv, NEW c \in Fresh
    PROVE  /\ c \in Contexts /\ c \notin open
           /\ \A n \in 1 .. Len(table) : table[n].ctx # c
           /\ \A v \in Users : user[v].ctx # c
           /\ Untaken(c)
<1>1. TableOf(table)
  BY DEF PoolInv, TableOk
<1> QED
  BY <1>1, InTableFits DEF Fresh, InClosing, Untaken

LEMMA NewContextKeeps ==
    ASSUME PoolInv, NEW u \in Users, NewContext(u) PROVE PoolInv'
<1>0. /\ user[u].at = "evicting" /\ HasSpace /\ browser = "up"
      /\ UNCHANGED <<browser, table, poolLock, shutAt, idle, closing, leaked>>
  BY DEF NewContext
<1>1. PICK c \in Fresh :
         open' = open \union {c} /\ user' = [user EXCEPT ![u] = Visit(user[u].key, "making", c)]
  BY DEF NewContext
<1>2. /\ c \in Contexts /\ c \notin open
      /\ \A n \in 1 .. Len(table) : table[n].ctx # c
      /\ \A v \in Users : user[v].ctx # c
      /\ Untaken(c)
  BY <1>1, FreshFacts
<1>3. user[u].key \in PoolKeys /\ "making" \in PoolPlaces /\ c \in Contexts \union {Nothing3}
  BY <1>2, CallFacts DEF PoolPlaces
<1>4. /\ user' \in [Users -> PoolCalls]
      /\ user'[u].key = user[u].key /\ user'[u].at = "making" /\ user'[u].ctx = c
      /\ \A v \in Users : v # u => user'[v] = user[v]
  BY <1>1, <1>3, CallParts, CallsAre
<1>5. /\ poolLock = u /\ shutAt \notin {"closing", "done"}
      /\ \A v \in Users : v # u => user[v].at \notin {"starting", "evicting", "making"}
  BY <1>0, LockHolder
<1>6. PoolShapes'
  BY <1>0, <1>1, <1>2, <1>4 DEF PoolInv, PoolShapes
<1>7. TableOk'
  BY <1>0, <1>1 DEF PoolInv, TableOk, TableOf
<1>8. CallOk(u)'
  <2>1. \A n \in 1 .. Len(table) : table[n].key # user[u].key
    BY <1>0, CallFacts DEF CallOk
  <2>2. poolLock' = u /\ table' = table /\ browser' = "up" /\ c \in open' /\ Len(table) < MaxContexts
    BY <1>0, <1>1, <1>5 DEF HasSpace
  <2> QED
    BY <1>2, <1>4, <2>1, <2>2 DEF CallOk
<1>9. ASSUME NEW v \in Users, v # u PROVE CallOk(v)'
  <2>1. \A k \in 1 .. Len(table') : \E m \in 1 .. Len(table) : table'[k] = table[m]
    BY <1>0
  <2> QED
    BY <1>0, <1>4, <1>5, <1>9, <2>1, LockedOthers
<1>10. CallsApart'
  <2>1. ASSUME NEW v \in Users, NEW w \in Users, v # w, user'[v].ctx = user'[w].ctx, user'[v].ctx \in Contexts
        PROVE  user'[v].at = "using" /\ user'[w].at = "using" /\ user'[v].key = user'[w].key
    <3>1. v # u /\ w # u
      BY <1>2, <1>4, <2>1
    <3> QED
      BY <1>4, <2>1, <3>1 DEF PoolInv, CallsApart
  <2> QED
    BY <2>1 DEF CallsApart
<1>11. OpenKept' /\ ClosingOk'
  <2>1. \A v \in Users : user'[v].at = "making" => user'[v].ctx = c
    BY <1>4, <1>5
  <2> QED
    BY <1>0, <1>1, <1>2, <1>4, <1>5, <2>1 DEF PoolInv, OpenKept, ClosingOk, Untaken
<1>12. ShutOk'
  BY <1>0, <1>5 DEF ShutOk
<1> QED
  BY <1>6, <1>7, <1>8, <1>9, <1>10, <1>11, <1>12 DEF PoolInv

LEMMA PageFailsKeeps ==
    ASSUME PoolInv, NEW u \in Users, PageFails(u) PROVE PoolInv'
<1>0. /\ user[u].at = "making" /\ leaked' = leaked \union ({user[u].ctx} \cap open) /\ poolLock' = Nothing3
      /\ UNCHANGED <<browser, table, open, shutAt, idle, closing>>
  BY DEF PageFails, Abandons
<1>1. user' = [user EXCEPT ![u] = Visit(DefaultKey, "over", Nothing3)]
  BY DEF PageFails, Ends
<1>2. /\ DefaultKey \in PoolKeys /\ user[u].ctx \in Contexts /\ u # Nothing3 /\ "over" \in PoolPlaces
      /\ Nothing3 \in Contexts \union {Nothing3}
  BY <1>0, CallFacts, BrowserPoolAssumption DEF CallOk, PoolPlaces
<1>3. /\ user' \in [Users -> PoolCalls]
      /\ user'[u].key = DefaultKey /\ user'[u].at = "over" /\ user'[u].ctx = Nothing3
      /\ \A v \in Users : v # u => user'[v] = user[v]
  BY <1>1, <1>2, CallParts, CallsAre
<1>4. /\ poolLock = u /\ shutAt \notin {"closing", "done"}
      /\ \A v \in Users : v # u => user[v].at \notin {"starting", "evicting", "making"}
  BY <1>0, LockHolder
<1>5. PoolShapes'
  BY <1>0, <1>2, <1>3 DEF PoolInv, PoolShapes
<1>6. TableOk'
  BY <1>0 DEF PoolInv, TableOk, TableOf
<1>7. CallOk(u)'
  <2>1. /\ poolLock' # u
        /\ user'[u].at \notin {"starting", "evicting", "making", "using"} /\ user'[u].ctx = Nothing3
    BY <1>0, <1>2, <1>3
  <2> QED
    BY ONLY <2>1 DEF CallOk
<1>8. ASSUME NEW v \in Users, v # u PROVE CallOk(v)'
  <2>1. \A k \in 1 .. Len(table') : \E m \in 1 .. Len(table) : table'[k] = table[m]
    BY <1>0
  <2> QED
    BY <1>0, <1>3, <1>4, <1>8, <2>1, LockedOthers
<1>9. CallsApart'
  BY <1>1, ApartWithout
<1>10. OpenKept'
  <2>1. ASSUME NEW c \in open, NEW v \in Users, user[v].at = "making", user[v].ctx = c
        PROVE  c \in leaked'
    BY <1>0, <1>4, <2>1
  <2> QED
    BY <1>0, <2>1 DEF PoolInv, OpenKept
<1>11. ShutOk'
  BY <1>0, <1>4 DEF ShutOk
<1>12. ClosingOk'
  <2>1. \A v \in Users : user'[v].at # "making"
    BY <1>3, <1>4
  <2>2. ClosingOk /\ Untaken(user[u].ctx)
    BY <1>0 DEF PoolInv, ClosingOk
  <2>3. \A n \in 1 .. Len(table) : table[n].ctx # user[u].ctx
    BY <1>0, CallFacts DEF CallOk
  <2>4. \A n \in 1 .. Len(table) : Untaken(table[n].ctx)
    BY <2>2 DEF ClosingOk
  <2> DEFINE M == {user[u].ctx}
  <2>5. M \in SUBSET Contexts /\ \A c \in M : Untaken(c)
    BY <1>2, <2>2
  <2>6. \A n \in 1 .. Len(table') : Untaken(table'[n].ctx) /\ table'[n].ctx \notin M
    BY <1>0, <2>3, <2>4
  <2>7. closing' = closing /\ leaked' \in SUBSET (leaked \union M)
    BY <1>0
  <2> HIDE DEF M
  <2> QED
    BY <2>1, <2>5, <2>6, <2>7, ClosingGrows
<1> QED
  BY <1>5, <1>6, <1>7, <1>8, <1>9, <1>10, <1>11, <1>12 DEF PoolInv

\* What PageReady does to the table, and to who may hold the new context.
LEMMA PageReadyTable ==
    ASSUME PoolInv, NEW u \in Users, user[u].at = "making",
           table' = Append(table, [key |-> user[u].key, ctx |-> user[u].ctx])
    PROVE  /\ TableOf(table') /\ Len(table') = Len(table) + 1 /\ Len(table) \in Nat
           /\ \A n \in 1 .. Len(table) : table'[n] = table[n]
           /\ table'[Len(table) + 1].key = user[u].key /\ table'[Len(table) + 1].ctx = user[u].ctx
           /\ \A n \in 1 .. Len(table') : n \in 1 .. Len(table) \/ n = Len(table) + 1
<1> DEFINE e == [key |-> user[u].key, ctx |-> user[u].ctx]
<1>1. CallOk(u) /\ TableOf(table) /\ user[u].key \in PoolKeys
  BY CallFacts
<1>2. /\ e \in PoolEntries /\ e.key = user[u].key /\ e.ctx = user[u].ctx
      /\ \A n \in 1 .. Len(table) : table[n].key # e.key /\ table[n].ctx # e.ctx
  BY <1>1 DEF CallOk, PoolEntries
<1>3. table' = Append(table, e)
  OBVIOUS
<1> HIDE DEF e
<1>4. /\ TableOf(table') /\ Len(table') = Len(table) + 1
      /\ \A n \in 1 .. Len(table) : table'[n] = table[n]
      /\ table'[Len(table) + 1] = e
      /\ Len(table) \in Nat
  BY <1>1, <1>2, <1>3, AddedFits
<1>5. \A n \in 1 .. Len(table') : n \in 1 .. Len(table) \/ n = Len(table) + 1
  BY <1>4
<1> QED
  BY <1>2, <1>4, <1>5

LEMMA PageReadyKeeps ==
    ASSUME PoolInv, NEW u \in Users, PageReady(u) PROVE PoolInv'
<1>0. /\ user[u].at = "making" /\ poolLock' = Nothing3
      /\ UNCHANGED <<browser, open, shutAt, idle, closing, leaked>>
  BY DEF PageReady
<1>1. user' = [user EXCEPT ![u] = Visit(user[u].key, "using", user[u].ctx)]
  BY DEF PageReady, To
<1>2. /\ TableOf(table') /\ Len(table') = Len(table) + 1 /\ Len(table) \in Nat
      /\ \A n \in 1 .. Len(table) : table'[n] = table[n]
      /\ table'[Len(table) + 1].key = user[u].key /\ table'[Len(table) + 1].ctx = user[u].ctx
      /\ \A n \in 1 .. Len(table') : n \in 1 .. Len(table) \/ n = Len(table) + 1
  BY PageReadyTable DEF PageReady
<1>3. /\ CallOk(u) /\ user[u].key \in PoolKeys /\ user[u].ctx \in Contexts /\ u # Nothing3
      /\ "using" \in PoolPlaces /\ user[u].ctx \in Contexts \union {Nothing3}
  BY <1>0, CallFacts DEF CallOk, PoolPlaces
<1>4. /\ user' \in [Users -> PoolCalls]
      /\ user'[u].key = user[u].key /\ user'[u].at = "using" /\ user'[u].ctx = user[u].ctx
      /\ \A v \in Users : v # u => user'[v] = user[v]
  BY <1>1, <1>3, CallParts, CallsAre
<1>5. /\ poolLock = u /\ shutAt \notin {"closing", "done"}
      /\ \A v \in Users : v # u => user[v].at \notin {"starting", "evicting", "making"}
  BY <1>0, LockHolder
<1>6. \A v \in Users : v # u => user[v].ctx # user[u].ctx
  BY <1>0, <1>3 DEF PoolInv, CallsApart
<1>7. PoolShapes'
  BY <1>0, <1>4 DEF PoolInv, PoolShapes
<1>8. TableOk'
  <2>1. Len(table') <= MaxContexts
    <3>1. Len(table) < MaxContexts /\ MaxContexts \in Nat
      BY <1>0, <1>3, BrowserPoolAssumption DEF CallOk
    <3> QED
      BY <1>2, <3>1
  <2>2. idle' \in 0 .. Len(table')
    BY <1>0, <1>2 DEF PoolInv, TableOk
  <2>3. browser # "none"
    BY <1>0, <1>3 DEF CallOk
  <2>4. ASSUME browser = "up", NEW n \in 1 .. Len(table') PROVE table'[n].ctx \in open
    <3>1. CASE n \in 1 .. Len(table)
      BY <1>2, <2>4, <3>1 DEF PoolInv, TableOk
    <3>2. CASE n = Len(table) + 1
      BY <1>0, <1>2, <1>3, <2>4, <3>2 DEF CallOk
    <3> QED
      BY <1>2, <3>1, <3>2
  <2> QED
    BY <1>0, <1>2, <2>1, <2>2, <2>3, <2>4 DEF TableOk
<1>9. CallOk(u)'
  <2>1. ASSUME NEW n \in 1 .. Len(table'), table'[n].ctx = user[u].ctx
        PROVE  table'[n].key = user[u].key
    <3>1. n \notin 1 .. Len(table)
      BY <1>0, <1>2, <1>3, <2>1 DEF CallOk
    <3> QED
      BY <1>2, <3>1
  <2>2. poolLock' # u
    BY <1>0, <1>3
  <2> QED
    BY <1>3, <1>4, <2>1, <2>2 DEF CallOk
<1>10. ASSUME NEW v \in Users, v # u PROVE CallOk(v)'
  <2>1. ASSUME NEW k \in 1 .. Len(table')
        PROVE  (\E m \in 1 .. Len(table) : table'[k] = table[m]) \/ table'[k].ctx # user[v].ctx
    BY <1>2, <1>6, <1>10
  <2> QED
    BY <1>0, <1>4, <1>5, <1>10, <2>1, LockedOthers
<1>11. CallsApart'
  <2>1. ASSUME NEW v \in Users, NEW w \in Users, v # w, user'[v].ctx = user'[w].ctx, user'[v].ctx \in Contexts
        PROVE  user'[v].at = "using" /\ user'[w].at = "using" /\ user'[v].key = user'[w].key
    <3>1. v # u /\ w # u
      BY <1>4, <1>6, <2>1
    <3> QED
      BY <1>4, <2>1, <3>1 DEF PoolInv, CallsApart
  <2> QED
    BY <2>1 DEF CallsApart
<1>12. OpenKept'
  <2>1. ASSUME NEW c \in open
        PROVE  (\E n \in 1 .. Len(table') : table'[n].ctx = c) \/ c \in leaked \/ \E k \in Closers : c \in closing[k]
    <3>1. \/ \E n \in 1 .. Len(table) : table[n].ctx = c
          \/ c \in leaked
          \/ \E k \in Closers : c \in closing[k]
          \/ \E v \in Users : user[v].at = "making" /\ user[v].ctx = c
      BY DEF PoolInv, OpenKept
    <3>2. ASSUME NEW n \in 1 .. Len(table), table[n].ctx = c PROVE \E m \in 1 .. Len(table') : table'[m].ctx = c
      <4>1. n \in 1 .. Len(table')
        BY <1>2
      <4> QED
        BY <1>2, <3>2, <4>1
    <3>3. ASSUME NEW v \in Users, user[v].at = "making", user[v].ctx = c
          PROVE  \E m \in 1 .. Len(table') : table'[m].ctx = c
      <4>1. v = u /\ Len(table) + 1 \in 1 .. Len(table')
        BY <1>2, <1>5, <3>3
      <4> QED
        BY <1>2, <3>3, <4>1
    <3> QED
      BY <3>1, <3>2, <3>3
  <2> QED
    BY <1>0, <2>1 DEF OpenKept
<1>13. ShutOk'
  BY <1>0, <1>5 DEF ShutOk
<1>14. ClosingOk'
  <2>1. ClosingOk /\ Untaken(user[u].ctx)
    BY <1>0 DEF PoolInv, ClosingOk
  <2>2. \A v \in Users : user'[v].at # "making"
    BY <1>4, <1>5
  <2>3. \A n \in 1 .. Len(table') : Untaken(table'[n].ctx)
    BY <1>2, <2>1 DEF ClosingOk
  <2> QED
    BY <1>0, <2>1, <2>2, <2>3 DEF ClosingOk, Untaken
<1> QED
  BY <1>14, <1>7, <1>8, <1>9, <1>10, <1>11, <1>12, <1>13 DEF PoolInv

-----------------------------------------------------------------------------
(* EnterPool with a browser: a context that is there, or on to make one *)

LEMMA FoundKeeps ==
    ASSUME PoolInv, NEW u \in Users, EnterPool(u), shutAt = "no", browser # "none", user[u].key \in KeysIn PROVE PoolInv'
<1> DEFINE n == PlaceOf(user[u].key)
<1>0. /\ user[u].at = "waiting" /\ poolLock = Nothing3 /\ poolLock' = Nothing3
      /\ UNCHANGED <<browser, open, shutAt, closing, leaked>>
      /\ user' = [user EXCEPT ![u] = Visit(user[u].key, "using", table[n].ctx)]
      /\ table' = Append(RemoveAt(table, n), table[n]) /\ TakeOut(n)
  BY DEF EnterPool, LooksUp
<1>1. TableOf(table) /\ user[u].key \in PoolKeys /\ u # Nothing3
  BY CallFacts
<1>2. n \in 1 .. Len(table) /\ table[n].key = user[u].key /\ table[n] \in PoolEntries
  BY <1>1, PlaceFits
<1>3. DOMAIN table = 1 .. Len(table) /\ table[n].ctx \in Contexts
  BY <1>1, <1>2 DEF PoolEntries, TableOf
<1> HIDE DEF n
<1>4. /\ TableOf(table') /\ Len(table') = Len(table)
      /\ \A k \in 1 .. Len(table') : \E m \in 1 .. Len(table) : table'[k] = table[m]
      /\ \A m \in 1 .. Len(table) : \E k \in 1 .. Len(table') : table'[k] = table[m]
  BY <1>0, <1>1, <1>2, MovedFits
<1>5. PICK x \in Contexts : x = table[n].ctx
  BY <1>3
<1>6. /\ user' \in [Users -> PoolCalls]
      /\ user'[u].key = user[u].key /\ user'[u].at = "using" /\ user'[u].ctx = table[n].ctx
      /\ \A v \in Users : v # u => user'[v] = user[v]
  <2>1. user' = [user EXCEPT ![u] = Visit(user[u].key, "using", x)]
    BY <1>0, <1>5
  <2>2. "using" \in PoolPlaces /\ x \in Contexts \union {Nothing3}
    BY DEF PoolPlaces
  <2> QED
    BY <1>1, <1>5, <2>1, <2>2, CallParts, CallsAre
<1>7. /\ shutAt \notin {"closing", "done"}
      /\ \A v \in Users : user[v].at \notin {"starting", "evicting", "making"}
  BY <1>0, LockFree
<1>8. browser # "none" /\ browser' = browser
  BY <1>0
<1>9. PoolShapes'
  BY <1>0, <1>6, <1>8 DEF PoolInv, PoolShapes
<1>10. TableOk'
  <2>1. /\ Len(table) <= MaxContexts /\ idle \in 0 .. Len(table) /\ Len(table) \in Nat
        /\ browser = "up" => \A m \in 1 .. Len(table) : table[m].ctx \in open
    BY <1>1 DEF PoolInv, TableOk, TableOf
  <2>2. idle' \in 0 .. Len(table')
    <3>1. idle' = (IF n <= idle THEN idle - 1 ELSE idle) /\ n \in 1 .. Len(table) /\ Len(table') = Len(table)
      BY <1>0, <1>2, <1>4 DEF TakeOut
    <3> QED
      BY <2>1, <3>1
  <2>3. ASSUME browser = "up", NEW k \in 1 .. Len(table') PROVE table'[k].ctx \in open
    BY <1>4, <2>1, <2>3
  <2> QED
    BY <1>0, <1>4, <1>8, <2>1, <2>2, <2>3 DEF TableOk
<1>11. CallOk(u)'
  <2>1. ASSUME NEW k \in 1 .. Len(table'), table'[k].ctx = table[n].ctx
        PROVE  table'[k].key = user[u].key
    <3>1. PICK m \in 1 .. Len(table) : table'[k] = table[m]
      BY <1>4
    <3>2. m = n
      BY <1>1, <1>2, <2>1, <3>1 DEF TableOf
    <3> QED
      BY <1>2, <3>1, <3>2
  <2>2. poolLock' # u
    BY <1>0, <1>1
  <2> QED
    BY <1>3, <1>6, <2>1, <2>2 DEF CallOk
<1>12. ASSUME NEW v \in Users, v # u PROVE CallOk(v)'
  BY <1>0, <1>4, <1>6, <1>7, <1>12, LockedOthers
<1>13. CallsApart'
  <2>1. ASSUME NEW v \in Users, v # u, user[v].ctx = table[n].ctx
        PROVE  user[v].at = "using" /\ user[v].key = user[u].key
    BY <1>2, <1>3, <1>7, <2>1, CallFacts, BrowserPoolAssumption DEF CallOk
  <2>2. ASSUME NEW v \in Users, NEW w \in Users, v # w, user'[v].ctx = user'[w].ctx, user'[v].ctx \in Contexts
        PROVE  user'[v].at = "using" /\ user'[w].at = "using" /\ user'[v].key = user'[w].key
    <3>1. CASE v = u
      BY <1>6, <2>1, <2>2, <3>1
    <3>2. CASE w = u
      BY <1>6, <2>1, <2>2, <3>2
    <3>3. CASE v # u /\ w # u
      BY <1>6, <2>2, <3>3 DEF PoolInv, CallsApart
    <3> QED
      BY <3>1, <3>2, <3>3
  <2> QED
    BY <2>2 DEF CallsApart
<1>14. OpenKept'
  <2>1. ASSUME NEW c \in open
        PROVE  (\E k \in 1 .. Len(table') : table'[k].ctx = c) \/ c \in leaked \/ \E k \in Closers : c \in closing[k]
    <3>1. \A v \in Users : user[v].at # "making"
      BY <1>0, <1>7
    <3>2. (\E m \in 1 .. Len(table) : table[m].ctx = c) \/ c \in leaked \/ \E k \in Closers : c \in closing[k]
      BY <3>1 DEF PoolInv, OpenKept
    <3> QED
      BY <1>4, <3>2
  <2> QED
    BY <1>0, <2>1 DEF OpenKept
<1>15. ShutOk'
  BY <1>0, <1>7 DEF ShutOk
<1>16. ClosingOk'
  <2>1. \A v \in Users : user'[v].at = "making" => user'[v] = user[v]
    BY <1>6
  <2> QED
    BY <1>0, <1>4, <2>1, ClosingRests
<1> QED
  BY <1>16, <1>9, <1>10, <1>11, <1>12, <1>13, <1>14, <1>15 DEF PoolInv

\* The lock is taken, or kept, to make a context for a key that has none.
LEMMA ToEvict ==
    ASSUME PoolInv, NEW u \in Users, user[u].at \in {"waiting", "starting"}, poolLock \in {u, Nothing3},
           To(u, "evicting"), poolLock' = u, user[u].key \notin KeysIn,
           browser' \in {"up", "crashed", "closed"}, browser' = browser \/ browser = "none",
           shutAt \notin {"closing", "done"},
           UNCHANGED <<table, open, shutAt, idle, closing, leaked>>
    PROVE  PoolInv'
<1>0. UNCHANGED <<table, open, shutAt, idle, closing, leaked>>
  OBVIOUS
<1>1. /\ TableOf(table) /\ user[u].key \in PoolKeys /\ user[u].ctx = Nothing3
      /\ "evicting" \in PoolPlaces /\ Nothing3 \in Contexts \union {Nothing3}
  BY CallFacts DEF CallOk, PoolPlaces
<1>2. user' = [user EXCEPT ![u] = Visit(user[u].key, "evicting", Nothing3)]
  BY <1>1 DEF To
<1>3. /\ user' \in [Users -> PoolCalls]
      /\ user'[u].key = user[u].key /\ user'[u].at = "evicting" /\ user'[u].ctx = Nothing3
      /\ \A v \in Users : v # u => user'[v] = user[v]
  BY <1>1, <1>2, CallParts, CallsAre
<1>4. /\ poolLock \in {u, Nothing3} /\ poolLock' = u
      /\ \A v \in Users : v # u => user[v].at \notin {"starting", "evicting", "making"}
  BY LockHolder, LockFree, CallFacts
<1>5. browser' \in {"up", "crashed", "closed"} /\ u # Nothing3
  BY BrowserPoolAssumption
<1>6. PoolShapes'
  BY <1>0, <1>3, <1>4, <1>5 DEF PoolInv, PoolShapes
<1>7. TableOk'
  <2>1. /\ TableOf(table) /\ Len(table) <= MaxContexts /\ idle \in 0 .. Len(table)
        /\ browser = "none" => table = <<>>
        /\ browser = "up" => \A m \in 1 .. Len(table) : table[m].ctx \in open
    BY DEF PoolInv, TableOk
  <2>2. CASE browser = "none"
    BY <1>0, <2>1, <2>2 DEF TableOk
  <2>3. CASE browser # "none"
    BY <1>0, <2>1, <2>3 DEF TableOk
  <2> QED
    BY <2>2, <2>3
<1>8. CallOk(u)'
  <2>1. \A k \in 1 .. Len(table') : table'[k].key # user[u].key
    BY <1>0, <1>1, InTableFits
  <2> QED
    BY <1>0, <1>3, <1>4, <1>5, <2>1 DEF CallOk
<1>9. ASSUME NEW v \in Users, v # u PROVE CallOk(v)'
  <2>1. \A k \in 1 .. Len(table') : \E m \in 1 .. Len(table) : table'[k] = table[m]
    BY <1>0
  <2> QED
    BY <1>0, <1>3, <1>4, <1>9, <2>1, LockedOthers
<1>10. CallsApart'
  BY <1>2, ApartWithout
<1>11. OpenKept' /\ ClosingOk'
  <2>1. /\ \A v \in Users : user'[v].at = "making" => user'[v] = user[v]
        /\ \A v \in Users : user[v].at = "making" => user'[v] = user[v]
    BY <1>3
  <2> QED
    BY <1>0, <2>1, ClosingRests DEF PoolInv, OpenKept
<1>12. ShutOk'
  BY <1>0, <1>5 DEF ShutOk
<1> QED
  BY <1>6, <1>7, <1>8, <1>9, <1>10, <1>11, <1>12 DEF PoolInv

LEMMA MissedKeeps ==
    ASSUME PoolInv, NEW u \in Users, EnterPool(u), shutAt = "no", browser # "none", user[u].key \notin KeysIn PROVE PoolInv'
<1>1. /\ user[u].at = "waiting" /\ poolLock = Nothing3 /\ To(u, "evicting") /\ poolLock' = u
      /\ UNCHANGED <<browser, table, open, shutAt, idle, closing, leaked>>
  BY DEF EnterPool, LooksUp
<1>2. browser' \in {"up", "crashed", "closed"}
  BY <1>1 DEF PoolInv, PoolShapes
<1> QED
  BY <1>1, <1>2, ToEvict

LEMMA EnterPoolKeeps ==
    ASSUME PoolInv, NEW u \in Users, EnterPool(u) PROVE PoolInv'
BY EnterClosedKeeps, EnterFirstKeeps, FoundKeeps, MissedKeeps

LEMMA EnsureBrowserKeeps ==
    ASSUME PoolInv, NEW u \in Users, EnsureBrowser(u) PROVE PoolInv'
<1>1. /\ user[u].at = "starting" /\ browser' = "up" /\ To(u, "evicting")
      /\ UNCHANGED <<table, open, poolLock, shutAt, idle, closing, leaked>>
  BY DEF EnsureBrowser
<1>2. poolLock = u /\ shutAt \notin {"closing", "done"} /\ browser = "none" /\ table = <<>>
  BY <1>1, LockHolder, CallFacts DEF CallOk, PoolInv, TableOk
<1>3. user[u].key \notin KeysIn
  BY <1>2 DEF KeysIn
<1> QED
  BY <1>1, <1>2, <1>3, ToEvict

-----------------------------------------------------------------------------
(* The pool itself, between the calls *)

\* The table loses entries while no call is in the pool.
LEMMA PoolShrinks ==
    ASSUME PoolInv, poolLock = Nothing3, UNCHANGED <<poolLock, user>>,
           \A k \in 1 .. Len(table') : \E m \in 1 .. Len(table) : table'[k] = table[m]
    PROVE  (\A v \in Users : CallOk(v)') /\ CallsApart'
<1>1. ASSUME NEW v \in Users PROVE CallOk(v)'
  <2>1. v # Nothing3
    BY BrowserPoolAssumption
  <2> QED
    BY <2>1, OthersUse
<1>2. CallsApart'
  BY DEF PoolInv, CallsApart
<1> QED
  BY <1>1, <1>2

LEMMA CloseSessionKeeps ==
    ASSUME PoolInv, NEW session \in PoolKeys, CloseSession(session) PROVE PoolInv'
<1> DEFINE n == PlaceOf(session)
<1>0. /\ poolLock = Nothing3 /\ session \in KeysIn
      /\ table' = RemoveAt(table, n) /\ Takes("sockets", {table[n].ctx}) /\ TakeOut(n)
      /\ UNCHANGED <<browser, open, poolLock, user, shutAt, leaked>>
  BY DEF CloseSession
<1>1. TableOf(table)
  BY DEF PoolInv, TableOk
<1>2. n \in 1 .. Len(table)
  BY <1>0, <1>1, PlaceFits
<1> HIDE DEF n
<1>3. Less(table', n)
  BY <1>0, <1>1, <1>2, RemovedFits
<1>4. TableOk'
  BY <1>0, <1>2, <1>3, LessOk
<1>a. closing' = [closing EXCEPT !["sockets"] = @ \union {table[n].ctx}] /\ "sockets" \in Closers
  BY <1>0 DEF Takes, Closers
<1>b. closing \in [Closers -> SUBSET Contexts] /\ table[n].ctx \in Contexts
  <2>1. table[n] \in PoolEntries
    BY <1>1, <1>2 DEF TableOf
  <2> QED
    BY <2>1 DEF PoolInv, PoolShapes, PoolEntries
<1>5. OpenKept' /\ ClosingOk'
  <2>1. table[n].ctx \in closing'["sockets"] /\ \A k \in Closers : closing[k] \in SUBSET closing'[k]
    BY <1>a, <1>b
  <2> QED
    BY <1>0, <1>2, <1>3, <1>a, <2>1, LessKept, LessClosing
<1>6. PoolShapes'
  BY <1>0, <1>a, <1>b DEF PoolInv, PoolShapes
<1>7. \A k \in 1 .. Len(table') : \E m \in 1 .. Len(table) : table'[k] = table[m]
  BY <1>3 DEF Less
<1>8. (\A v \in Users : CallOk(v)') /\ CallsApart'
  BY <1>0, <1>7, PoolShrinks
<1>9. ShutOk'
  <2>1. table # <<>>
    BY <1>2
  <2> QED
    BY <1>0, <2>1 DEF PoolInv, ShutOk
<1> QED
  BY <1>4, <1>5, <1>6, <1>8, <1>9 DEF PoolInv

\* Entries are taken out by a closer outside the calls: the contexts of what is
\* left are not among them, and every other entry is left.
LEMMA TakenKeeps ==
    ASSUME PoolInv, NEW k \in Closers, NEW M \in SUBSET Contexts, Takes(k, M),
           UNCHANGED <<open, user, leaked>>,
           \A c \in M : \E m \in 1 .. Len(table) : table[m].ctx = c,
           \A n \in 1 .. Len(table') : table'[n].ctx \notin M /\ \E m \in 1 .. Len(table) : table'[n] = table[m],
           \A m \in 1 .. Len(table) : table[m].ctx \in M \/ \E n \in 1 .. Len(table') : table'[n] = table[m]
    PROVE  OpenKept' /\ ClosingOk' /\ closing' \in [Closers -> SUBSET Contexts]
<1>1. closing \in [Closers -> SUBSET Contexts] /\ closing' = [closing EXCEPT ![k] = @ \union M]
  BY DEF PoolInv, PoolShapes, Takes
<1>2. \A l \in Closers : closing'[l] = IF l = k THEN closing[l] \union M ELSE closing[l]
  BY <1>1
<1>3. ClosingOk
  BY DEF PoolInv
<1>4. ClosingOk'
  <2>1. \A c \in M : Untaken(c)
    BY <1>3 DEF ClosingOk
  <2>2. \A n \in 1 .. Len(table') : Untaken(table'[n].ctx) /\ table'[n].ctx \notin M
    BY <1>3 DEF ClosingOk
  <2>3. ASSUME NEW v \in Users, user[v].at = "making" PROVE Untaken(user[v].ctx) /\ user[v].ctx \notin M
    BY <1>3, <2>3, CallFacts DEF ClosingOk, CallOk
  <2> QED
    BY <1>1, <2>1, <2>2, <2>3, ClosingGrows
<1>5. ASSUME NEW c \in open
      PROVE  \/ \E n \in 1 .. Len(table') : table'[n].ctx = c
             \/ c \in leaked
             \/ \E l \in Closers : c \in closing'[l]
             \/ \E u \in Users : user[u].at = "making" /\ user[u].ctx = c
  <2>1. CASE \E m \in 1 .. Len(table) : table[m].ctx = c
    <3>1. PICK m \in 1 .. Len(table) : table[m].ctx = c
      BY <2>1
    <3>2. c \in M => c \in closing'[k]
      BY <1>2
    <3> QED
      BY <3>1, <3>2
  <2>2. CASE \E l \in Closers : c \in closing[l]
    BY <1>2, <2>2
  <2> QED
    BY <2>1, <2>2 DEF PoolInv, OpenKept
<1>6. OpenKept'
  BY <1>5 DEF OpenKept
<1>7. closing' \in [Closers -> SUBSET Contexts]
  BY <1>1
<1> QED
  BY <1>4, <1>6, <1>7

LEMMA EvictIdleKeeps ==
    ASSUME PoolInv, EvictIdle PROVE PoolInv'
<1>0. /\ poolLock = Nothing3 /\ shutAt = "no" /\ idle' = 0
      /\ table' = SubSeq(table, idle + 1, Len(table)) /\ Takes("loop", {table[m].ctx : m \in 1 .. idle})
      /\ UNCHANGED <<browser, open, poolLock, user, shutAt, leaked>>
  BY DEF EvictIdle
<1>1. /\ TableOf(table) /\ Len(table) <= MaxContexts /\ idle \in 0 .. Len(table)
      /\ Len(table) \in Nat /\ MaxContexts \in Nat
      /\ browser = "none" => table = <<>>
      /\ browser = "up" => \A m \in 1 .. Len(table) : table[m].ctx \in open
  BY BrowserPoolAssumption DEF PoolInv, TableOk, TableOf
<1>2. /\ TableOf(table') /\ Len(table') = Len(table) - idle
      /\ \A k \in 1 .. Len(table') : idle + k \in 1 .. Len(table) /\ table'[k] = table[idle + k]
  BY <1>0, <1>1, RestFits
<1>3. \A k \in 1 .. Len(table') : \E m \in 1 .. Len(table) : table'[k] = table[m]
  BY <1>2
<1>5. (\A v \in Users : CallOk(v)') /\ CallsApart'
  BY <1>0, <1>3, PoolShrinks
<1>6. TableOk'
  <2>1. Len(table') <= MaxContexts /\ idle' \in 0 .. Len(table') /\ Len(table') \in Nat
    BY <1>0, <1>1, <1>2
  <2>2. ASSUME browser = "up", NEW k \in 1 .. Len(table') PROVE table'[k].ctx \in open
    BY <1>1, <1>3, <2>2
  <2>3. browser = "none" => table' = <<>>
    <3>1. ASSUME browser = "none" PROVE Len(table') = 0
      BY <1>1, <1>2, <3>1, EmptySeq
    <3> QED
      BY <1>2, <3>1, EmptySeq DEF TableOf
  <2> QED
    BY <1>0, <1>2, <2>1, <2>2, <2>3 DEF TableOk
<1>7. OpenKept' /\ ClosingOk' /\ closing' \in [Closers -> SUBSET Contexts]
  <2> DEFINE M == {table[m].ctx : m \in 1 .. idle}
  <2>0. \A m \in 1 .. idle : m \in 1 .. Len(table)
    BY <1>1
  <2>1. \A c \in M : \E m \in 1 .. Len(table) : table[m].ctx = c
    BY <2>0
  <2>2. ASSUME NEW n \in 1 .. Len(table')
        PROVE  table'[n].ctx \notin M /\ \E m \in 1 .. Len(table) : table'[n] = table[m]
    <3>1. idle + n \in 1 .. Len(table) /\ table'[n] = table[idle + n] /\ \A m \in 1 .. idle : m # idle + n
      BY <1>1, <1>2
    <3>2. \A m \in 1 .. idle : table[m].ctx # table[idle + n].ctx
      BY <1>1, <2>0, <3>1 DEF TableOf
    <3> QED
      BY <3>1, <3>2
  <2>3. ASSUME NEW m \in 1 .. Len(table)
        PROVE  table[m].ctx \in M \/ \E n \in 1 .. Len(table') : table'[n] = table[m]
    <3>1. CASE m \in 1 .. idle
      BY <3>1
    <3>2. CASE m \notin 1 .. idle
      <4>1. m - idle \in 1 .. Len(table') /\ idle + (m - idle) = m
        BY <1>1, <1>2, <3>2
      <4> QED
        BY <1>2, <4>1
    <3> QED
      BY <3>1, <3>2
  <2>4. M \in SUBSET Contexts
    <3>1. \A m \in 1 .. Len(table) : table[m] \in PoolEntries
      BY <1>1 DEF TableOf
    <3>2. \A m \in 1 .. Len(table) : table[m].ctx \in Contexts
      BY <3>1 DEF PoolEntries
    <3> QED
      BY <2>1, <3>2
  <2>5. Takes("loop", M) /\ "loop" \in Closers
    BY <1>0 DEF Closers
  <2> HIDE DEF M
  <2> QED
    BY <1>0, <2>1, <2>2, <2>3, <2>4, <2>5, TakenKeeps
<1>8. ShutOk' /\ PoolShapes'
  BY <1>0, <1>7 DEF PoolInv, PoolShapes, ShutOk
<1> QED
  BY <1>5, <1>6, <1>7, <1>8 DEF PoolInv

\* A context is closed, or is lost.
LEMMA CloseEntryKeeps ==
    ASSUME PoolInv, NEW k \in Closers, CloseEntry(k) PROVE PoolInv'
<1>1. PICK c \in closing[k] :
         /\ closing' = [closing EXCEPT ![k] = @ \ {c}]
         /\ \/ open' = open \ {c} /\ UNCHANGED leaked
            \/ leaked' = leaked \union ({c} \cap open) /\ UNCHANGED open
  BY DEF CloseEntry, Abandons
<1>0. UNCHANGED <<browser, table, poolLock, user, shutAt, idle>>
  BY DEF CloseEntry
<1>2. /\ closing \in [Closers -> SUBSET Contexts] /\ ClosingOk /\ leaked \in SUBSET open
      /\ \A l \in Closers : closing'[l] = IF l = k THEN closing[l] \ {c} ELSE closing[l]
  BY <1>1 DEF PoolInv, PoolShapes
<1>3. /\ c \notin leaked
      /\ \A n \in 1 .. Len(table) : table[n].ctx # c
      /\ \A v \in Users : user[v].at = "making" => user[v].ctx # c
  BY <1>2 DEF ClosingOk, Untaken
<1>4. PoolShapes'
  BY <1>0, <1>1, <1>2, <1>3 DEF PoolInv, PoolShapes
<1>5. TableOk'
  <2>1. browser = "up" => \A n \in 1 .. Len(table) : table[n].ctx \in open'
    BY <1>1, <1>3 DEF PoolInv, TableOk
  <2> QED
    BY <1>0, <2>1 DEF PoolInv, TableOk, TableOf
<1>6. ASSUME NEW v \in Users PROVE CallOk(v)'
  <2>1. user[v].at = "making" => (browser = "up" => user[v].ctx \in open')
    BY <1>1, <1>3, CallFacts DEF CallOk
  <2>2. CallOk(v)
    BY DEF PoolInv
  <2> QED
    BY <1>0, <2>1, <2>2 DEF CallOk
<1>7. CallsApart' /\ ShutOk'
  BY <1>0, <1>1 DEF PoolInv, CallsApart, ShutOk
<1>8. ClosingOk'
  <2>1. {c} \in SUBSET closing[k] /\ leaked' \in SUBSET (leaked \union {c})
    BY <1>1
  <2> QED
    BY <1>0, <1>1, <2>1, ClosingShrinks
<1>9. OpenKept'
  <2>1. ASSUME NEW x \in open', x # c
        PROVE  \/ \E n \in 1 .. Len(table) : table[n].ctx = x
               \/ x \in leaked'
               \/ \E l \in Closers : x \in closing'[l]
               \/ \E u \in Users : user[u].at = "making" /\ user[u].ctx = x
    BY <1>1, <1>2, <2>1 DEF PoolInv, OpenKept
  <2>2. c \in open' => c \in leaked'
    BY <1>1
  <2> QED
    BY <1>0, <2>1, <2>2 DEF OpenKept
<1> QED
  BY <1>4, <1>5, <1>6, <1>7, <1>8, <1>9 DEF PoolInv

LEMMA GrowIdleKeeps ==
    ASSUME PoolInv, GrowIdle PROVE PoolInv'
<1>0. /\ idle < Len(table) /\ idle' = idle + 1
      /\ UNCHANGED <<browser, table, open, poolLock, user, shutAt, closing, leaked>>
  BY DEF GrowIdle
<1>1. TableOk'
  <2>1. TableOf(table) /\ Len(table) \in Nat /\ idle \in 0 .. Len(table)
    BY DEF PoolInv, TableOk, TableOf
  <2>2. idle' \in 0 .. Len(table)
    BY <1>0, <2>1
  <2> QED
    BY <1>0, <2>2 DEF PoolInv, TableOk, TableOf
<1>2. PoolShapes'
  BY <1>0 DEF PoolInv, PoolShapes
<1>3. \A v \in Users : CallOk(v)'
  BY <1>0, OthersRest
<1>4. CallsApart' /\ OpenKept' /\ ClosingOk' /\ ShutOk'
  BY <1>0, ClosingRests DEF PoolInv, CallsApart, OpenKept, ShutOk
<1> QED
  BY <1>1, <1>2, <1>3, <1>4 DEF PoolInv

LEMMA BrowserCrashesKeeps ==
    ASSUME PoolInv, BrowserCrashes PROVE PoolInv'
<1>0. /\ browser = "up" /\ browser' = "crashed" /\ open' = {} /\ leaked' = {}
      /\ UNCHANGED <<table, poolLock, user, shutAt, idle, closing>>
  BY DEF BrowserCrashes
<1>1. TableOk' /\ PoolShapes'
  BY <1>0 DEF PoolInv, TableOk, TableOf, PoolShapes
<1>2. \A v \in Users : CallOk(v)'
  BY <1>0, OthersRest
<1>3. CallsApart' /\ OpenKept' /\ ClosingOk' /\ ShutOk'
  BY <1>0, ClosingRests DEF PoolInv, CallsApart, OpenKept, ShutOk
<1> QED
  BY <1>1, <1>2, <1>3 DEF PoolInv

LEMMA ShutBeginsKeeps ==
    ASSUME PoolInv, ShutBegins PROVE PoolInv'
<1>0. /\ shutAt = "no" /\ shutAt' = "waiting"
      /\ closing' = [closing EXCEPT !["loop"] = {}] /\ leaked' = leaked \union (closing["loop"] \cap open)
      /\ UNCHANGED <<browser, table, open, poolLock, user, idle>>
  BY DEF ShutBegins, Abandons
<1>a. /\ closing' = [closing EXCEPT !["loop"] = @ \ closing["loop"]] /\ "loop" \in Closers
      /\ closing \in [Closers -> SUBSET Contexts]
      /\ \A k \in Closers : closing'[k] = IF k = "loop" THEN {} ELSE closing[k]
  BY <1>0 DEF Closers, PoolInv, PoolShapes
<1>1. TableOk' /\ PoolShapes'
  BY <1>0, <1>a DEF PoolInv, TableOk, TableOf, PoolShapes
<1>2. \A v \in Users : CallOk(v)'
  BY <1>0, OthersRest
<1>3. CallsApart' /\ OpenKept' /\ ClosingOk' /\ ShutOk'
  <2>1. OpenKept'
    BY <1>0, <1>a DEF PoolInv, OpenKept
  <2>2. ClosingOk'
    <3>1. leaked' \in SUBSET (leaked \union closing["loop"]) /\ closing["loop"] \in SUBSET closing["loop"]
      BY <1>0
    <3> QED
      BY <1>0, <1>a, <3>1, ClosingShrinks
  <2> QED
    BY <1>0, <2>1, <2>2 DEF PoolInv, CallsApart, ShutOk
<1> QED
  BY <1>1, <1>2, <1>3 DEF PoolInv

LEMMA ShutClearsKeeps ==
    ASSUME PoolInv, ShutClears PROVE PoolInv'
<1>0. /\ shutAt = "waiting" /\ poolLock = Nothing3
      /\ shutAt' = "closing" /\ table' = <<>> /\ idle' = 0 /\ Takes("shutdown", InTable)
      /\ UNCHANGED <<browser, open, poolLock, user, leaked>>
  BY DEF ShutClears
<1>1. table' \in Seq(PoolEntries) /\ Len(table') = 0 /\ MaxContexts \in Nat
  BY <1>0, BrowserPoolAssumption
<1>2. TableOk'
  BY <1>0, <1>1 DEF TableOk, TableOf
<1>4. \A k \in 1 .. Len(table') : \E m \in 1 .. Len(table) : table'[k] = table[m]
  BY <1>1
<1>5. (\A v \in Users : CallOk(v)') /\ CallsApart'
  BY <1>0, <1>4, PoolShrinks
<1>6. OpenKept' /\ ClosingOk' /\ closing' \in [Closers -> SUBSET Contexts]
  <2>1. InTable = {table[n].ctx : n \in 1 .. Len(table)} /\ table \in Seq(PoolEntries)
    BY InTableFits DEF PoolInv, TableOk, TableOf
  <2>2. /\ InTable \in SUBSET Contexts
        /\ \A c \in InTable : \E m \in 1 .. Len(table) : table[m].ctx = c
        /\ \A m \in 1 .. Len(table) : table[m].ctx \in InTable
    <3>1. \A m \in 1 .. Len(table) : table[m] \in PoolEntries
      BY <2>1
    <3>2. \A m \in 1 .. Len(table) : table[m].ctx \in Contexts
      BY <3>1 DEF PoolEntries
    <3> QED
      BY <2>1, <3>2
  <2>3. \A n \in 1 .. Len(table') : FALSE
    BY <1>1
  <2>4. "shutdown" \in Closers
    BY DEF Closers
  <2> QED
    BY <1>0, <2>2, <2>3, <2>4, TakenKeeps
<1>7. ShutOk' /\ PoolShapes'
  BY <1>0, <1>6 DEF PoolInv, PoolShapes, ShutOk
<1> QED
  BY <1>2, <1>5, <1>6, <1>7 DEF PoolInv

LEMMA ShutEndsKeeps ==
    ASSUME PoolInv, ShutEnds PROVE PoolInv'
<1>0. /\ shutAt = "closing" /\ shutAt' = "done"
      /\ browser' = (IF browser = "none" THEN "none" ELSE "closed") /\ open' = {} /\ leaked' = {}
      /\ UNCHANGED <<table, poolLock, user, idle, closing>>
  BY DEF ShutEnds
<1>1. poolLock = Nothing3 /\ table = <<>>
  BY <1>0 DEF PoolInv, ShutOk
<1>2. TableOk' /\ PoolShapes'
  BY <1>0, <1>1 DEF PoolInv, TableOk, TableOf, PoolShapes
<1>3. \A k \in 1 .. Len(table') : \E m \in 1 .. Len(table) : table'[k] = table[m]
  BY <1>0
<1>4. (\A v \in Users : CallOk(v)') /\ CallsApart'
  BY <1>0, <1>1, <1>3, PoolShrinks
<1>5. OpenKept' /\ ShutOk' /\ ClosingOk'
  <2>1. leaked' \in SUBSET leaked /\ \A v \in Users : user'[v].at = "making" => user'[v] = user[v]
    BY <1>0
  <2> QED
    BY <1>0, <1>1, <1>3, <2>1, ClosingRests DEF OpenKept, ShutOk
<1> QED
  BY <1>2, <1>4, <1>5 DEF PoolInv

LEMMA PoolStep ==
    ASSUME PoolInv, [PoolNext]_poolVars PROVE PoolInv'
<1>1. ASSUME NEW u \in Users, NEW key \in PoolKeys, CallTool2(u, key) PROVE PoolInv'
  BY <1>1, CallToolKeeps
<1>2. ASSUME NEW u \in Users, EnterPool(u) PROVE PoolInv'
  BY <1>2, EnterPoolKeeps
<1>3. ASSUME NEW u \in Users, EnsureBrowser(u) PROVE PoolInv'
  BY <1>3, EnsureBrowserKeeps
<1>4. ASSUME NEW u \in Users, StartFails2(u) PROVE PoolInv'
  BY <1>4, StartFailsKeeps
<1>5. ASSUME NEW u \in Users, EvictOldest(u) PROVE PoolInv'
  BY <1>5, EvictOldestKeeps
<1>6. ASSUME NEW u \in Users, EvictBreaksOff(u) PROVE PoolInv'
  BY <1>6, EvictBreaksOffKeeps
<1>7. ASSUME NEW u \in Users, NewContext(u) PROVE PoolInv'
  BY <1>7, NewContextKeeps
<1>8. ASSUME NEW u \in Users, NewContextFails(u) PROVE PoolInv'
  BY <1>8, NewContextFailsKeeps
<1>9. ASSUME NEW u \in Users, PageReady(u) PROVE PoolInv'
  BY <1>9, PageReadyKeeps
<1>10. ASSUME NEW u \in Users, PageFails(u) PROVE PoolInv'
  BY <1>10, PageFailsKeeps
<1>11. ASSUME NEW u \in Users, UsePage(u) PROVE PoolInv'
  BY <1>11, UsePageKeeps
<1>12. ASSUME NEW session \in PoolKeys \ {DefaultKey}, CloseSession(session) PROVE PoolInv'
  BY <1>12, CloseSessionKeeps
<1>15. ASSUME NEW closer \in Closers, CloseEntry(closer) PROVE PoolInv'
  BY <1>15, CloseEntryKeeps
<1>13. CASE GrowIdle \/ EvictIdle \/ BrowserCrashes \/ ShutBegins \/ ShutClears \/ ShutEnds
  BY <1>13, GrowIdleKeeps, EvictIdleKeeps, BrowserCrashesKeeps, ShutBeginsKeeps, ShutClearsKeeps, ShutEndsKeeps
<1>14. CASE UNCHANGED poolVars
  <2>1. UNCHANGED <<browser, table, open, poolLock, user, shutAt, idle, closing, leaked>>
    BY <1>14 DEF poolVars
  <2>2. TableOk' /\ PoolShapes'
    BY <2>1 DEF PoolInv, TableOk, TableOf, PoolShapes
  <2>3. \A v \in Users : CallOk(v)'
    BY <2>1, OthersRest
  <2>4. CallsApart' /\ OpenKept' /\ ClosingOk' /\ ShutOk'
    BY <2>1, ClosingRests DEF PoolInv, CallsApart, OpenKept, ShutOk
  <2> QED
    BY <2>2, <2>3, <2>4 DEF PoolInv
<1> QED
  BY <1>1, <1>2, <1>3, <1>4, <1>5, <1>6, <1>7, <1>8, <1>9, <1>10, <1>11, <1>12, <1>13, <1>14, <1>15 DEF PoolNext

LEMMA PoolInvSound ==
    ASSUME PoolInv PROVE BrowserPoolSound
<1>1. /\ TableOf(table) /\ Len(table) <= MaxContexts /\ idle \in 0 .. Len(table)
      /\ browser = "up" => \A n \in 1 .. Len(table) : table[n].ctx \in open
  BY DEF PoolInv, TableOk
<1>2. DOMAIN table = 1 .. Len(table)
  BY <1>1 DEF TableOf
<1>3. BrowserPoolTypeOK
  BY <1>1 DEF BrowserPoolTypeOK, PoolInv, PoolShapes
<1>4. \A m, n \in DOMAIN table : m # n => table[m].key # table[n].key /\ table[m].ctx # table[n].ctx
  BY <1>1, <1>2 DEF TableOf
<1>5. \A c \in open : c \in InTable \union InClosing \union leaked \/ \E u \in Users : user[u].at = "making" /\ user[u].ctx = c
  BY <1>1, InTableFits DEF PoolInv, OpenKept, InClosing
<1>9. InTable \cap (InClosing \union leaked) = {}
  BY <1>1, InTableFits DEF PoolInv, ClosingOk, Untaken, InClosing
<1>10. \A k, l \in Closers : k # l => closing[k] \cap (closing[l] \union leaked) = {}
  BY DEF PoolInv, ClosingOk
<1>6. browser = "up" => InTable \subseteq open
  BY <1>1, InTableFits
<1>7. shutAt = "done" => (open = {} /\ table = <<>>)
  BY DEF PoolInv, ShutOk
<1>8. ASSUME NEW u \in Users, NEW v \in Users, user[u].at = "using", user[v].at = "using", user[u].ctx = user[v].ctx
      PROVE  user[u].key = user[v].key
  <2>1. user[u].ctx \in Contexts
    BY <1>8, CallFacts DEF CallOk
  <2> QED
    BY <1>8, <2>1 DEF PoolInv, CallsApart
<1> QED
  BY <1>1, <1>3, <1>4, <1>5, <1>6, <1>7, <1>8, <1>9, <1>10 DEF BrowserPoolSound

(* The pool of browser contexts, for any number of calls, keys and contexts:
   the table keeps its limit and one context to a key; a context that was taken
   out to be closed, or was lost, is in the table no more and has one closer;
   what is open beyond the table is with a closer, is being made, or was lost
   when its making or closing broke off; after the shutdown nothing is open;
   and two calls that use one context asked for it by one key (get_context,
   _evict_stale, close_context and shutdown of browser_pool.py). *)
THEOREM BrowserPoolSoundHolds == PoolSpec => []BrowserPoolSound
<1>1. PoolInit => PoolInv
  BY PoolStarts
<1>2. PoolInv /\ [PoolNext]_poolVars => PoolInv'
  BY PoolStep
<1>3. PoolInv => BrowserPoolSound
  BY PoolInvSound
<1> QED
  BY <1>1, <1>2, <1>3, PTL DEF PoolSpec
=============================================================================
