----------------------- MODULE PipelineManagerProofs -----------------------
(***************************************************************************)
(* Isolation of concurrent requests, for any number of goroutines, any set *)
(* of requests and every configuration of the manager; that chunkInput     *)
(* loses nothing of any text, and what follows for the answers; and the    *)
(* budget of a request, until it is changed under one.                     *)
(***************************************************************************)
EXTENDS PipelineManager, DataLemmas

States == {"idle", "key", "lookup", "split", "process", "post", "store", "done"}

\* The shape of the local state: what EXCEPT and Append need to know.
Shape ==
  /\ pc \in [Proc -> States]
  /\ req \in [Proc -> Requests]
  /\ key = [p \in Proc |-> key[p]]
  /\ todo = [p \in Proc |-> todo[p]]
  /\ piece = [p \in Proc |-> piece[p]]
  /\ out = [p \in Proc |-> out[p]]
  /\ \A p \in Proc : \E S : out[p] \in Seq(S)

\* The filters are those of the coordinator's current query: the early return
\* of syncCoordinatorForRequest is harmless.
FiltersFollowQuery == filters = query

\* A request that has not reached its chunks has no output yet, so taking on
\* a new request never relabels old output.
NoEarlyOutput ==
  \A p \in Proc : pc[p] \in {"idle", "key", "lookup", "split"} => out[p] = << >>

\* The key a goroutine looks up or stores under is its own request's.
KeyIsOwn ==
  \A p \in Proc :
    /\ pc[p] \in {"lookup", "store"} =>
         key[p].mode = req[p].mode /\ key[p].query = req[p].query
    /\ pc[p] = "store" => key[p].text = piece[p].text

\* The piece in work is the head of the chunks, under the request's own
\* configuration, whoever has reconfigured the coordinator since.
PieceIsOwn ==
  \A p \in Proc : pc[p] \in {"post", "store"} =>
    Answers(piece[p], req[p]) /\ piece[p].text = Head(todo[p])

ManagerInv ==
  /\ Shape /\ FiltersFollowQuery /\ NoEarlyOutput /\ KeyIsOwn /\ PieceIsOwn
  /\ OwnConfiguration /\ CacheHoldsItsKey

\* Appending keeps the elements of a sequence and adds one.
LEMMA AppendAdds ==
  ASSUME NEW S, NEW s \in Seq(S), NEW x
  PROVE  /\ Append(s, x) \in Seq(S \union {x})
         /\ DOMAIN Append(s, x) = 1..(Len(s) + 1)
         /\ DOMAIN s = 1..Len(s)
         /\ \A i \in DOMAIN s : Append(s, x)[i] = s[i]
         /\ Append(s, x)[Len(s) + 1] = x
<1>1. s \in Seq(S \union {x})
  OBVIOUS
<1> QED
  BY <1>1, AppendProperties

\* After a Set the cache holds the new entry and, of the others, old ones.
LEMMA CacheSetEntries ==
  ASSUME NEW x, NEW v, CacheSet(x, v), NEW k \in DOMAIN cache'
  PROVE  \/ k = x /\ cache'[k] = v
         \/ k \in DOMAIN cache /\ cache'[k] = cache[k]
<1>1. CASE x \in DOMAIN cache
  <2>1. cache' = [cache EXCEPT ![x] = v]
    BY <1>1 DEF CacheSet
  <2> QED
    BY <1>1, <2>1
<1>2. CASE x \notin DOMAIN cache
  <2>1. PICK E \in SUBSET (DOMAIN cache) :
          cache' = [y \in (DOMAIN cache \ E) \union {x} |-> IF y = x THEN v ELSE cache[y]]
    BY <1>2 DEF CacheSet
  <2> QED
    BY <2>1
<1> QED
  BY <1>1, <1>2

\* A new manager satisfies the invariant.
LEMMA ManagerInitInv == Init => ManagerInv
<1> SUFFICES ASSUME Init PROVE ManagerInv
  OBVIOUS
<1>1. << >> \in Seq({})
  OBVIOUS
<1>2. Shape
  BY <1>1 DEF Init, Shape, States
<1>3. FiltersFollowQuery /\ NoEarlyOutput /\ KeyIsOwn /\ PieceIsOwn /\ CacheHoldsItsKey
  BY DEF Init, FiltersFollowQuery, NoEarlyOutput, KeyIsOwn, PieceIsOwn, CacheHoldsItsKey
<1>4. OwnConfiguration
  BY DEF Init, OwnConfiguration
<1> QED
  BY <1>2, <1>3, <1>4 DEF ManagerInv

\* A step that only looks at p's local state and leaves the output, the cache
\* and the configuration of the filters alone.
LEMMA ManagerStepInv == ManagerInv /\ [Next]_vars => ManagerInv'
<1> SUFFICES ASSUME ManagerInv, [Next]_vars PROVE ManagerInv'
  OBVIOUS
<1> USE DEF ManagerInv, Shape, States, FiltersFollowQuery, NoEarlyOutput, KeyIsOwn,
            PieceIsOwn, OwnConfiguration, CacheHoldsItsKey, Answers,
            sharedVars, configVars
<1>1. ASSUME NEW p \in Proc, NEW r \in Requests, Start(p, r) PROVE ManagerInv'
  BY <1>1 DEF Start, syncCoordinatorForRequest
<1>2. ASSUME NEW p \in Proc, TooLarge(p) PROVE ManagerInv'
  BY <1>2 DEF TooLarge
<1>3. ASSUME NEW p \in Proc, ReadKey(p) PROVE ManagerInv'
  BY <1>3, ZenonT(40) DEF ReadKey, cacheKey
<1>4. ASSUME NEW p \in Proc, LookupHit(p) PROVE ManagerInv'
  <2>1. <<cache[key[p]]>> \in Seq({cache[key[p]]})
    OBVIOUS
  <2>2. Answers(cache[key[p]], req[p])
    BY <1>4 DEF LookupHit
  <2>3. Shape'
    BY <1>4, <2>1 DEF LookupHit
  <2>4. OwnConfiguration'
    <3> DEFINE e == cache[key[p]]
    <3>1. out' = [out EXCEPT ![p] = <<e>>] /\ UNCHANGED req
      BY <1>4 DEF LookupHit
    <3> HIDE DEF e
    <3>2. out'[p] = <<e>> /\ \A q \in Proc \ {p} : out'[q] = out[q]
      BY <3>1
    <3>3. DOMAIN <<e>> = {1} /\ <<e>>[1] = e
      OBVIOUS
    <3>4. Answers(e, req[p])
      BY <2>2 DEF e
    <3>5. ASSUME NEW q \in Proc, NEW i \in DOMAIN out'[q] PROVE Answers(out'[q][i], req[q])
      <4>1. CASE q = p
        BY <3>2, <3>3, <3>4, <3>5, <4>1
      <4>2. CASE q # p
        BY <3>2, <3>5, <4>2
      <4> QED
        BY <4>1, <4>2
    <3> QED
      BY <3>1, <3>5
  <2> QED
    BY <1>4, <2>3, <2>4 DEF LookupHit
<1>5. ASSUME NEW p \in Proc, LookupMiss(p) PROVE ManagerInv'
  <2>1. CacheHoldsItsKey'
    BY <1>5 DEF LookupMiss, Restrict
  <2> QED
    BY <1>5, <2>1, ZenonT(40) DEF LookupMiss
<1>6. ASSUME NEW p \in Proc, Split(p) PROVE ManagerInv'
  BY <1>6 DEF Split
<1>7. ASSUME NEW p \in Proc, ProcessChunk(p) PROVE ManagerInv'
  <2>1. mode' = req[p].mode /\ filters' = req[p].query /\ query' = req[p].query
    BY <1>7 DEF ProcessChunk, syncCoordinatorForRequest
  <2>2. PICK o \in Compressed(Head(todo[p]), mode', filters') :
          piece' = [piece EXCEPT ![p] = o]
    BY <1>7 DEF ProcessChunk
  <2>3. Answers(o, req[p]) /\ o.text = Head(todo[p])
    BY <2>1, <2>2 DEF Compressed
  <2>4. /\ pc[p] = "process" /\ pc' = [pc EXCEPT ![p] = "post"]
        /\ UNCHANGED <<cache, req, key, todo, out>>
    BY <1>7 DEF ProcessChunk
  <2>5. Shape' /\ FiltersFollowQuery' /\ NoEarlyOutput'
    BY <2>1, <2>2, <2>4
  <2>6. KeyIsOwn' /\ OwnConfiguration' /\ CacheHoldsItsKey'
    BY <2>2, <2>4
  <2>7. PieceIsOwn'
    BY <2>2, <2>3, <2>4
  <2> QED
    BY <2>5, <2>6, <2>7
<1>8. ASSUME NEW p \in Proc, Post(p) PROVE ManagerInv'
  <2> DEFINE v == Validated(piece[p], req[p])
             w == IF Nothing(v) /\ FailSafeMode THEN Raw(v) ELSE v
  <2>1. /\ piece' = [piece EXCEPT ![p] = w]
        /\ key' = [key EXCEPT ![p] = cacheKey(Head(todo[p]), req[p])]
        /\ pc' = [pc EXCEPT ![p] = "store"]
        /\ UNCHANGED <<configVars, cache, req, todo, out>>
    BY <1>8 DEF Post
  <2>2. pc[p] = "post"
    BY <1>8 DEF Post
  <2>3. v.text = Head(todo[p]) /\ v.mode = req[p].mode /\ v.query = req[p].query
    BY <2>2 DEF Validated, Raw
  <2>4. w.text = Head(todo[p]) /\ Answers(w, req[p])
    BY <2>3 DEF Raw
  <2> HIDE DEF w
  <2> QED
    BY <2>1, <2>2, <2>4, ZenonT(40) DEF cacheKey
<1>9. ASSUME NEW p \in Proc, StoreResult(p) PROVE ManagerInv'
  <2>1. /\ pc[p] = "store"
        /\ out' = [out EXCEPT ![p] = Append(out[p], piece[p])]
        /\ todo' = [todo EXCEPT ![p] = Tail(todo[p])]
        /\ pc' = [pc EXCEPT ![p] = "done"] \/ pc' = [pc EXCEPT ![p] = "process"]
        /\ UNCHANGED <<configVars, req, key, piece>>
    BY <1>9 DEF StoreResult
  <2>2. PICK S : out[p] \in Seq(S)
    OBVIOUS
  <2> DEFINE s == Append(out[p], piece[p])
  <2>a. /\ s \in Seq(S \union {piece[p]})
        /\ DOMAIN s = 1..(Len(out[p]) + 1)
        /\ DOMAIN out[p] = 1..Len(out[p])
        /\ \A i \in DOMAIN out[p] : s[i] = out[p][i]
        /\ s[Len(out[p]) + 1] = piece[p]
        /\ Len(out[p]) \in Nat
    BY <2>2, AppendAdds
  <2>b. out' = [out EXCEPT ![p] = s]
    BY <2>1
  <2> HIDE DEF s
  <2>d. /\ key[p].text = piece[p].text
        /\ key[p].mode = piece[p].mode /\ key[p].query = piece[p].query
        /\ Answers(piece[p], req[p])
    BY <2>1
  <2>c. ASSUME NEW i \in DOMAIN s PROVE Answers(s[i], req[p])
    <3>1. CASE i \in DOMAIN out[p]
      <4>1. Answers(out[p][i], req[p])
        BY <3>1
      <4> QED
        BY <2>a, <3>1, <4>1
    <3>2. CASE i = Len(out[p]) + 1
      BY <2>a, <2>d, <3>2
    <3> QED
      BY <2>a, <3>1, <3>2
  <2>3. OwnConfiguration'
    BY <2>1, <2>b, <2>c
  <2>4. CacheHoldsItsKey'
    <3>1. CASE UNCHANGED cache
      BY <3>1
    <3>2. CASE CacheSet(key[p], piece[p])
      <4>1. ASSUME NEW k \in DOMAIN cache'
            PROVE  \/ k = key[p] /\ cache'[k] = piece[p]
                   \/ k \in DOMAIN cache /\ cache'[k] = cache[k]
        BY <3>2, CacheSetEntries
      <4>2. ASSUME NEW k \in DOMAIN cache'
            PROVE  /\ cache'[k].text = k.text
                   /\ cache'[k].mode = k.mode /\ cache'[k].query = k.query
        <5>1. CASE k = key[p] /\ cache'[k] = piece[p]
          BY <2>d, <5>1, Zenon
        <5>2. CASE k \in DOMAIN cache /\ cache'[k] = cache[k]
          <6>1. cache[k].text = k.text /\ cache[k].mode = k.mode /\ cache[k].query = k.query
            BY <5>2
          <6> QED
            BY <5>2, <6>1, Zenon
        <5> QED
          BY <4>1, <5>1, <5>2, Zenon
      <4> QED
        BY <4>2
    <3> QED
      BY <1>9, <3>1, <3>2 DEF StoreResult
  <2>5. Shape'
    <3>1. ASSUME NEW q \in Proc PROVE \E T : out'[q] \in Seq(T)
      <4>1. CASE q = p
        <5>1. out'[q] = s
          BY <2>b, <4>1
        <5> QED
          BY <2>a, <5>1
      <4>2. CASE q # p
        <5>1. out'[q] = out[q]
          BY <2>b, <4>2
        <5> QED
          BY <5>1
      <4> QED
        BY <4>1, <4>2
    <3>2. out' = [q \in Proc |-> out'[q]]
      BY <2>b
    <3>3. /\ pc' \in [Proc -> States] /\ req' \in [Proc -> Requests]
          /\ key' = [q \in Proc |-> key'[q]] /\ todo' = [q \in Proc |-> todo'[q]]
          /\ piece' = [q \in Proc |-> piece'[q]]
      BY <2>1
    <3> QED
      BY <3>1, <3>2, <3>3
  <2>6. FiltersFollowQuery' /\ KeyIsOwn' /\ PieceIsOwn'
    BY <2>1
  <2>7. NoEarlyOutput'
    BY <2>1, <2>b
  <2> QED
    BY <2>3, <2>4, <2>5, <2>6, <2>7
<1>10. ASSUME NEW p \in Proc, Return(p) PROVE ManagerInv'
  <2>1. << >> \in Seq({})
    OBVIOUS
  <2>2. ASSUME NEW q \in Proc PROVE \E T : out'[q] \in Seq(T)
    <3>1. CASE q = p
      <4>1. out'[q] = << >>
        BY <1>10, <3>1 DEF Return
      <4> QED
        BY <2>1, <4>1
    <3>2. CASE q # p
      <4>1. out'[q] = out[q]
        BY <1>10, <3>2 DEF Return
      <4> QED
        BY <4>1
    <3> QED
      BY <3>1, <3>2
  <2>3. Shape'
    BY <1>10, <2>2 DEF Return
  <2>4. FiltersFollowQuery' /\ KeyIsOwn' /\ PieceIsOwn' /\ CacheHoldsItsKey'
    BY <1>10 DEF Return
  <2>5. NoEarlyOutput' /\ OwnConfiguration'
    BY <1>10 DEF Return
  <2> QED
    BY <2>3, <2>4, <2>5
<1>11. CASE Tick
  BY <1>11 DEF Tick, localVars
<1>12. CASE UNCHANGED vars
  BY <1>12 DEF vars, localVars
<1> QED
  BY <1>1, <1>2, <1>3, <1>4, <1>5, <1>6, <1>7, <1>8, <1>9, <1>10, <1>11, <1>12
  DEF Next, Serve

\* Whatever requests share the manager, each gets output compressed under its
\* own mode and query, fresh or cached, and the cache never holds a result
\* under the wrong text, mode or query.
THEOREM RequestsAreIsolated == Spec => [](OwnConfiguration /\ CacheHoldsItsKey)
<1>1. Spec => []ManagerInv
  BY ManagerInitInv, ManagerStepInv, PTL DEF Spec
<1> QED
  BY <1>1, PTL DEF ManagerInv

\* The part of it that is about the cache alone: no interleaving of the steps
\* of processSingle stores a result under a key it was not made for.
THEOREM CacheEntriesMatchTheirKeys == Spec => []CacheHoldsItsKey
BY RequestsAreIsolated, PTL

-----------------------------------------------------------------------------
(***************************************************************************)
(* Texts and chunks                                                        *)
(***************************************************************************)
\* The sums behind EstimateTokens.
Sums(f, text) ==
  /\ f \in [0..Len(text) -> Nat]
  /\ f[0] = 0 /\ \A i \in 1..Len(text) : f[i] = f[i - 1] + LineTokens[text[i]]

LEMMA TextTokensIsSum ==
  ASSUME NEW text \in Seq(Line)
  PROVE  \E f : Sums(f, text) /\ TextTokens(text) = f[Len(text)]
<1> DEFINE n == Len(text)
           G == [a \in Nat \X (1..n) |-> a[1] + LineTokens[text[a[2]]]]
           Is(f) == f = [i \in 0..n |-> IF i = 0 THEN 0 ELSE f[i - 1] + LineTokens[text[i]]]
           sum == CHOOSE f : Is(f)
<1>1. n \in Nat /\ \A i \in 1..n : LineTokens[text[i]] \in Nat
  BY LineTokensAssumption
<1>2. G \in [Nat \X (1..n) -> Nat]
  BY <1>1
<1>3. PICK f \in [0..n -> Nat] : Iterates(f, n, 0, G)
  <2> HIDE DEF G
  <2> QED
    BY <1>1, <1>2, Iteration
<1>4. Is(f)
  <2>1. ASSUME NEW i \in 1..n PROVE f[i] = f[i - 1] + LineTokens[text[i]]
    <3>1. i - 1 \in 0..n
      BY <1>1
    <3>2. f[i - 1] \in Nat
      BY <1>3, <3>1
    <3> QED
      BY <1>3, <3>2 DEF Iterates
  <2>2. f[0] = 0
    BY <1>3 DEF Iterates
  <2>3. \A i \in 0..n : i = 0 \/ i \in 1..n
    BY <1>1
  <2>4. f = [i \in 0..n |-> f[i]]
    BY <1>3
  <2>5. \A i \in 0..n : f[i] = IF i = 0 THEN 0 ELSE f[i - 1] + LineTokens[text[i]]
    BY <2>1, <2>2, <2>3
  <2> HIDE DEF n
  <2> QED
    BY <2>4, <2>5
<1>5. Is(sum)
  BY <1>4
<1>6. TextTokens(text) = sum[n]
  BY DEF TextTokens
<1> HIDE DEF sum
<1>7. /\ sum[0] = 0
      /\ \A i \in 1..n : sum[i] = sum[i - 1] + LineTokens[text[i]]
      /\ sum = [i \in 0..n |-> sum[i]]
  <2> HIDE DEF n
  <2>1. \A i \in 0..n : sum[i] = IF i = 0 THEN 0 ELSE sum[i - 1] + LineTokens[text[i]]
    BY <1>5
  <2>2. sum = [i \in 0..n |-> sum[i]]
    BY <1>5, <2>1
  <2>3. 0 \in 0..n /\ \A i \in 1..n : i \in 0..n /\ i # 0
    BY <1>1
  <2> QED
    BY <2>1, <2>2, <2>3
<1>8. \A i \in 0..n : sum[i] \in Nat
  <2> DEFINE S == {i \in 0..n : sum[i] \in Nat}
  <2>1. 0 \in S
    BY <1>1, <1>7
  <2>2. ASSUME NEW i \in 1..n, i - 1 \in S PROVE i \in S
    <3>1. sum[i - 1] \in Nat /\ LineTokens[text[i]] \in Nat /\ i \in 0..n
      BY <1>1, <2>2
    <3>2. sum[i] = sum[i - 1] + LineTokens[text[i]]
      BY <1>7
    <3> QED
      BY <3>1, <3>2
  <2> HIDE DEF S
  <2>3. \A i \in 0..n : i \in S
    BY <1>1, <2>1, <2>2, Induction
  <2> QED
    BY <2>3 DEF S
<1> QED
  BY <1>6, <1>7, <1>8 DEF Sums

\* A line adds its tokens to those of the text before it.
LEMMA TextTokensOfAppend ==
  ASSUME NEW text \in Seq(Line), NEW l \in Line
  PROVE  /\ TextTokens(text) \in Nat /\ LineTokens[l] \in Nat
         /\ TextTokens(Append(text, l)) = TextTokens(text) + LineTokens[l]
<1> DEFINE n == Len(text)
           longer == Append(text, l)
<1>1. /\ longer \in Seq(Line) /\ Len(longer) = n + 1 /\ longer[n + 1] = l
      /\ \A i \in 1..n : longer[i] = text[i]
  BY AppendProperties
<1>2. n \in Nat
  OBVIOUS
<1>3. PICK f : Sums(f, text) /\ TextTokens(text) = f[n]
  BY TextTokensIsSum
<1> HIDE DEF longer
<1>4. PICK g : Sums(g, longer) /\ TextTokens(longer) = g[n + 1]
  BY <1>1, TextTokensIsSum
<1> HIDE DEF n
<1>5. \A i \in 0..n : g[i] = f[i]
  <2> DEFINE S == {i \in 0..n : g[i] = f[i]}
  <2>1. 0 \in S
    BY <1>2, <1>3, <1>4 DEF Sums
  <2>2. ASSUME NEW i \in 1..n, i - 1 \in S PROVE i \in S
    <3>1. /\ g[i] = g[i - 1] + LineTokens[longer[i]] /\ longer[i] = text[i]
          /\ f[i] = f[i - 1] + LineTokens[text[i]]
      BY <1>1, <1>2, <1>3, <1>4 DEF Sums, n
    <3> QED
      BY <1>2, <2>2, <3>1
  <2> HIDE DEF S
  <2>3. \A i \in 0..n : i \in S
    BY <1>2, <2>1, <2>2, Induction
  <2> QED
    BY <2>3 DEF S
<1>6. f[n] \in Nat
  BY <1>2, <1>3 DEF Sums, n
<1>7. g[n + 1] = g[n] + LineTokens[l]
  <2>1. n + 1 \in 1..Len(longer) /\ (n + 1) - 1 = n
    BY <1>1, <1>2
  <2>2. g[n + 1] = g[(n + 1) - 1] + LineTokens[longer[n + 1]]
    BY <1>4, <2>1 DEF Sums
  <2> QED
    BY <1>1, <2>1, <2>2
<1>8. LineTokens[l] \in Nat
  BY LineTokensAssumption
<1>9. g[n] = f[n]
  BY <1>2, <1>5
<1> QED
  BY <1>3, <1>4, <1>6, <1>7, <1>8, <1>9 DEF longer

LEMMA TextTokensOfEmpty == TextTokens(<< >>) = 0
<1>1. << >> \in Seq(Line) /\ Len(<< >>) = 0
  OBVIOUS
<1>2. PICK f : Sums(f, << >>) /\ TextTokens(<< >>) = f[Len(<< >>)]
  BY <1>1, TextTokensIsSum
<1> QED
  BY <1>1, <1>2 DEF Sums

\* A text of lines that all count for something counts for something.
LEMMA TextTokensOfText ==
  ASSUME NEW text \in Seq(Line)
  PROVE  /\ TextTokens(text) \in Nat
         /\ (\A l \in Line : LineTokens[l] > 0) /\ text # << >> => TextTokens(text) > 0
<1>1. CASE text = << >>
  BY <1>1, TextTokensOfEmpty
<1>2. CASE text # << >>
  <2>1. PICK t \in Seq(Line), l \in Line : text = Append(t, l)
    BY <1>2, SequenceEmptyOrAppend
  <2>2. /\ TextTokens(t) \in Nat /\ LineTokens[l] \in Nat
        /\ TextTokens(text) = TextTokens(t) + LineTokens[l]
    BY <2>1, TextTokensOfAppend
  <2> QED
    BY <2>2
<1> QED
  BY <1>1, <1>2

\* What chunkInput's loop has made of the lines t it has seen: the chunks and
\* the current one are t, and none is over the limit unless it is one line.
Acc == [chunks : Seq(Seq(Line)), current : Seq(Line), tokens : Nat]
Fits(c, max) == c # << >> /\ (TextTokens(c) <= max \/ Len(c) = 1)
Cut(acc, t, max) ==
  /\ acc \in Acc
  /\ FlattenSeq(acc.chunks) \o acc.current = t
  /\ acc.tokens = TextTokens(acc.current)
  /\ \A i \in 1..Len(acc.chunks) : Fits(acc.chunks[i], max)
  /\ acc.current # << >> => Fits(acc.current, max)

LEMMA FitsOfAppend ==
  ASSUME NEW max, NEW ss \in Seq(Seq(Line)), NEW c \in Seq(Line),
         \A i \in 1..Len(ss) : Fits(ss[i], max), Fits(c, max)
  PROVE  \A i \in 1..Len(Append(ss, c)) : Fits(Append(ss, c)[i], max)
<1> DEFINE n == Len(ss)
<1>1. /\ n \in Nat /\ Len(Append(ss, c)) = n + 1 /\ Append(ss, c)[n + 1] = c
      /\ \A i \in 1..n : Append(ss, c)[i] = ss[i]
  BY AppendProperties
<1>2. ASSUME NEW i \in 1..(n + 1) PROVE i \in 1..n \/ i = n + 1
  <2> HIDE DEF n
  <2> QED
    BY <1>1
<1> QED
  BY <1>1, <1>2

LEMMA AddLineCuts ==
  ASSUME NEW max \in Nat, NEW t \in Seq(Line), NEW l \in Line, NEW acc, Cut(acc, t, max)
  PROVE  Cut(AddLine(acc, l, max), Append(t, l), max) /\ AddLine(acc, l, max).current # << >>
<1> DEFINE ss == acc.chunks
           c == acc.current
           n == LineTokens[l]
           new == AddLine(acc, l, max)
<1>1. ss \in Seq(Seq(Line)) /\ c \in Seq(Line) /\ acc.tokens \in Nat /\ acc.tokens = TextTokens(c)
  BY DEF Cut, Acc
<1>2. /\ n \in Nat /\ TextTokens(c) \in Nat /\ TextTokens(Append(c, l)) = TextTokens(c) + n
  BY <1>1, TextTokensOfAppend
<1>3. TextTokens(<<l>>) = n
  <2>1. << >> \in Seq(Line) /\ Append(<< >>, l) = <<l>>
    OBVIOUS
  <2>2. TextTokens(Append(<< >>, l)) = TextTokens(<< >>) + LineTokens[l] /\ LineTokens[l] \in Nat
    BY <2>1, TextTokensOfAppend
  <2> QED
    BY <2>1, <2>2, TextTokensOfEmpty
<1>4. /\ Append(t, l) = t \o <<l>> /\ Append(c, l) = c \o <<l>> /\ <<l>> \in Seq(Line)
      /\ Append(c, l) \in Seq(Line)
  BY <1>1, AppendIsConcat, AppendProperties, SMTT(30)
<1>5. FlattenSeq(ss) \in Seq(Line) /\ FlattenSeq(Append(ss, c)) = FlattenSeq(ss) \o c
  BY <1>1, FlattenSeqOfAppend
<1>6. CASE acc.tokens + n > max /\ c # << >>
  <2>1. new = [chunks |-> Append(ss, c), current |-> <<l>>, tokens |-> n]
    BY <1>6 DEF AddLine
  <2>2. new \in Acc
    BY <1>1, <1>2, <1>4, <2>1, AppendProperties DEF Acc
  <2>7. new.chunks = Append(ss, c) /\ new.current = <<l>> /\ new.tokens = n
    BY <2>1
  <2>3. FlattenSeq(new.chunks) \o new.current = Append(t, l)
    <3>1. FlattenSeq(ss) \o c = t
      BY DEF Cut
    <3> QED
      BY <1>4, <1>5, <2>7, <3>1, Zenon
  <2>4. Fits(<<l>>, max)
    BY DEF Fits
  <2>5. Fits(c, max)
    BY <1>6 DEF Cut
  <2>6. \A i \in 1..Len(Append(ss, c)) : Fits(Append(ss, c)[i], max)
    BY <1>1, <2>5, FitsOfAppend DEF Cut
  <2> QED
    BY <1>3, <2>2, <2>3, <2>4, <2>6, <2>7 DEF Cut
<1>7. CASE ~(acc.tokens + n > max /\ c # << >>)
  <2>1. new = [acc EXCEPT !.current = Append(@, l), !.tokens = @ + n]
    BY <1>7 DEF AddLine
  <2>2. new.chunks = ss /\ new.current = Append(c, l) /\ new.tokens = acc.tokens + n
    BY <2>1 DEF Cut, Acc
  <2>3. acc.tokens + n \in Nat
    BY <1>1, <1>2
  <2>4. new \in Acc
    BY <1>4, <2>1, <2>3 DEF Cut, Acc
  <2>5. FlattenSeq(ss) \o Append(c, l) = Append(t, l)
    <3>1. (FlattenSeq(ss) \o c) \o <<l>> = FlattenSeq(ss) \o (c \o <<l>>)
      <4>1. ASSUME NEW x \in Seq(Line), NEW y \in Seq(Line), NEW z \in Seq(Line)
            PROVE  (x \o y) \o z = x \o (y \o z)
        BY ConcatAssociative, SMTT(60)
      <4> HIDE DEF ss, c
      <4> QED
        BY <1>1, <1>4, <1>5, <4>1, Zenon
    <3>2. FlattenSeq(ss) \o c = t
      BY DEF Cut
    <3> QED
      BY <1>4, <3>1, <3>2
  <2>6. Append(c, l) # << >>
    BY <1>1, AppendProperties
  <2>7. Fits(Append(c, l), max)
    <3>1. CASE c = << >>
      <4>1. Append(c, l) = <<l>>
        BY <3>1
      <4>2. Len(<<l>>) = 1
        OBVIOUS
      <4> QED
        BY <2>6, <4>1, <4>2 DEF Fits
    <3>2. CASE c # << >>
      <4>1. ~(acc.tokens + n > max)
        BY <1>7, <3>2
      <4>2. TextTokens(Append(c, l)) <= max
        BY <1>1, <1>2, <4>1
      <4> QED
        BY <2>6, <4>2 DEF Fits
    <3> QED
      BY <3>1, <3>2
  <2>8. acc.tokens + n = TextTokens(Append(c, l))
    BY <1>1, <1>2
  <2>9. \A i \in 1..Len(ss) : Fits(ss[i], max)
    BY DEF Cut
  <2> QED
    BY <2>2, <2>4, <2>5, <2>6, <2>7, <2>8, <2>9 DEF Cut
<1> QED
  BY <1>6, <1>7

\* The loop of chunkInput.
LEMMA LoopCuts ==
  ASSUME NEW max \in Nat, NEW text \in Seq(Line), TextTokens(text) > max
  PROVE  \E acc : /\ Cut(acc, text, max) /\ acc.current # << >>
                  /\ chunkInput(text, max) = Append(acc.chunks, acc.current)
<1> DEFINE n == Len(text)
           start == [chunks |-> << >>, current |-> << >>, tokens |-> 0]
           X == {acc \in Acc : \E t \in Seq(Line) : Cut(acc, t, max)}
           G == [a \in X \X (1..n) |-> AddLine(a[1], text[a[2]], max)]
           Is(f) == f = [i \in 0..n |-> IF i = 0 THEN start ELSE AddLine(f[i - 1], text[i], max)]
           loop == CHOOSE f : Is(f)
<1>1. n \in Nat /\ \A i \in 1..n : text[i] \in Line
  BY ElementOfSeq
<1>2. chunkInput(text, max) = IF loop[n].current = << >> THEN loop[n].chunks
                              ELSE Append(loop[n].chunks, loop[n].current)
  <2>1. ~(TextTokens(text) <= max)
    BY TextTokensOfText
  <2> QED
    BY <2>1 DEF chunkInput
<1>3. Cut(start, << >>, max)
  <2>1. FlattenSeq(<< >>) = << >> /\ << >> \o << >> = << >>
    BY ConcatEmptySeq DEF FlattenSeq
  <2>2. start \in Acc /\ start.chunks = << >> /\ start.current = << >> /\ start.tokens = 0
    BY DEF Acc
  <2>3. Len(<< >>) = 0
    OBVIOUS
  <2> HIDE DEF start
  <2> QED
    BY <2>1, <2>2, <2>3, TextTokensOfEmpty DEF Cut
<1>4. start \in X
  <2>1. << >> \in Seq(Line) /\ start \in Acc
    BY <1>3 DEF Cut
  <2> QED
    BY <1>3, <2>1
<1>5. ASSUME NEW acc \in X, NEW l \in Line PROVE AddLine(acc, l, max) \in X
  <2>1. PICK t \in Seq(Line) : Cut(acc, t, max)
    BY <1>5
  <2>2. Cut(AddLine(acc, l, max), Append(t, l), max) /\ Append(t, l) \in Seq(Line)
    BY <2>1, AddLineCuts
  <2> QED
    BY <2>2 DEF Cut
<1> HIDE DEF X, start, loop, n
<1>6. G \in [X \X (1..n) -> X]
  BY <1>1, <1>5
<1>7. PICK f \in [0..n -> X] : Iterates(f, n, start, G)
  <2> HIDE DEF G
  <2> QED
    BY <1>1, <1>4, <1>6, Iteration
<1>8. Is(f)
  <2>1. ASSUME NEW i \in 1..n PROVE f[i] = AddLine(f[i - 1], text[i], max)
    <3>1. i - 1 \in 0..n
      BY <1>1
    <3>2. f[i - 1] \in X
      BY <1>7, <3>1
    <3> QED
      BY <1>7, <3>2 DEF Iterates
  <2>2. f[0] = start
    BY <1>7 DEF Iterates
  <2>3. \A i \in 0..n : i = 0 \/ i \in 1..n
    BY <1>1
  <2>4. \A i \in 0..n : f[i] = IF i = 0 THEN start ELSE AddLine(f[i - 1], text[i], max)
    BY <2>1, <2>2, <2>3
  <2> QED
    BY <1>7, <2>4
<1>9. Is(loop)
  BY <1>8 DEF loop
<1>10. \A i \in 0..n : loop[i] = IF i = 0 THEN start ELSE AddLine(loop[i - 1], text[i], max)
  BY <1>9
<1>11. \A i \in 0..n : Cut(loop[i], SubSeq(text, 1, i), max) /\ (i > 0 => loop[i].current # << >>)
  <2> DEFINE S == {i \in 0..n : /\ Cut(loop[i], SubSeq(text, 1, i), max)
                                /\ i > 0 => loop[i].current # << >>}
  <2>1. 0 \in S
    <3>1. 0 \in 0..n /\ ~(0 > 0)
      BY <1>1
    <3>2. loop[0] = start /\ SubSeq(text, 1, 0) = << >>
      BY <1>10, <3>1, SubSeqEmpty
    <3> QED
      BY <1>3, <3>1, <3>2
  <2>2. ASSUME NEW i \in 1..n, i - 1 \in S PROVE i \in S
    <3>1. i \in 0..n /\ i # 0 /\ i \in 1..i /\ 1 \in 1..n /\ i \in 1..n
      BY <1>1
    <3>2. loop[i] = AddLine(loop[i - 1], text[i], max)
      BY <1>10, <3>1
    <3> DEFINE t == SubSeq(text, 1, i - 1)
    <3>3. t \in Seq(Line)
      BY <1>1, SubSeqProperties
    <3>4. SubSeq(text, 1, i) = t \o <<text[i]>>
      BY <3>1, SubSeqRecursiveSecond DEF n
    <3>5. t \o <<text[i]>> = Append(t, text[i])
      BY <1>1, <3>3, AppendIsConcat
    <3>6. Cut(loop[i - 1], t, max)
      BY <2>2
    <3> HIDE DEF t
    <3>7. Cut(loop[i], Append(t, text[i]), max) /\ loop[i].current # << >>
      BY <1>1, <3>2, <3>3, <3>6, AddLineCuts
    <3> QED
      BY <3>1, <3>4, <3>5, <3>7
  <2> HIDE DEF S
  <2>3. \A i \in 0..n : i \in S
    BY <1>1, <2>1, <2>2, Induction
  <2> QED
    BY <2>3 DEF S
<1>12. n \in 0..n /\ n > 0
  <2>1. text # << >>
    <3>1. SUFFICES ASSUME text = << >> PROVE FALSE
      OBVIOUS
    <3>2. TextTokens(text) = 0
      BY <3>1, TextTokensOfEmpty
    <3> QED
      BY <3>2
  <2>2. n # 0
    BY <2>1, EmptySeq DEF n
  <2> QED
    BY <1>1, <2>2
<1>13. SubSeq(text, 1, n) = text
  BY SubSeqFull DEF n
<1> QED
  BY <1>2, <1>11, <1>12, <1>13

\* chunkInput loses no line and keeps their order, and a chunk is over the
\* limit only if it is a single line.
LEMMA ChunkInputCuts ==
  ASSUME NEW max \in Nat, NEW text \in Seq(Line)
  PROVE  /\ chunkInput(text, max) \in Seq(Seq(Line)) /\ chunkInput(text, max) # << >>
         /\ FlattenSeq(chunkInput(text, max)) = text
         /\ text # << >> => \A i \in 1..Len(chunkInput(text, max)) : Fits(chunkInput(text, max)[i], max)
<1>1. CASE TextTokens(text) <= max
  <2>1. chunkInput(text, max) = <<text>>
    BY <1>1 DEF chunkInput
  <2>2. /\ <<text>> \in Seq(Seq(Line)) /\ <<text>> # << >> /\ Len(<<text>>) = 1
        /\ <<text>>[1] = text
    OBVIOUS
  <2>3. FlattenSeq(<<text>>) = text
    BY FlattenSeqOfOne
  <2>4. \A i \in 1..1 : i = 1
    OBVIOUS
  <2> QED
    BY <1>1, <2>1, <2>2, <2>3, <2>4 DEF Fits
<1>2. CASE TextTokens(text) > max
  <2>1. PICK acc : /\ Cut(acc, text, max) /\ acc.current # << >>
                   /\ chunkInput(text, max) = Append(acc.chunks, acc.current)
    BY <1>2, LoopCuts
  <2> DEFINE ss == acc.chunks
             c == acc.current
  <2>2. ss \in Seq(Seq(Line)) /\ c \in Seq(Line) /\ FlattenSeq(ss) \o c = text
    BY <2>1 DEF Cut, Acc
  <2>3. (\A i \in 1..Len(ss) : Fits(ss[i], max)) /\ Fits(c, max)
    BY <2>1 DEF Cut
  <2>4. chunkInput(text, max) = Append(ss, c)
    BY <2>1
  <2> HIDE DEF ss, c
  <2>5. FlattenSeq(Append(ss, c)) = text
    BY <2>2, FlattenSeqOfAppend
  <2>6. Append(ss, c) \in Seq(Seq(Line)) /\ Append(ss, c) # << >>
    BY <2>2, AppendProperties
  <2>7. \A i \in 1..Len(Append(ss, c)) : Fits(Append(ss, c)[i], max)
    BY <2>2, <2>3, FitsOfAppend
  <2> QED
    BY <2>4, <2>5, <2>6, <2>7
<1>3. TextTokens(text) <= max \/ TextTokens(text) > max
  BY TextTokensOfText
<1> QED
  BY <1>1, <1>2, <1>3

\* chunkInput cuts any text into chunks that are the text again, line for line
\* and in order, each within the chunk size unless it is one line that is not.
THEOREM ChunksAreTheText ==
  \A text \in Seq(Line), max \in Nat :
    LET chunks == chunkInput(text, max)
    IN  /\ FlattenSeq(chunks) = text
        /\ text # << >> =>
             \A i \in DOMAIN chunks : TextTokens(chunks[i]) <= max \/ Len(chunks[i]) = 1
<1> SUFFICES ASSUME NEW text \in Seq(Line), NEW max \in Nat
             PROVE  /\ FlattenSeq(chunkInput(text, max)) = text
                    /\ text # << >> =>
                         \A i \in DOMAIN chunkInput(text, max) :
                           \/ TextTokens(chunkInput(text, max)[i]) <= max
                           \/ Len(chunkInput(text, max)[i]) = 1
  OBVIOUS
<1> DEFINE cs == chunkInput(text, max)
<1>1. /\ cs \in Seq(Seq(Line)) /\ FlattenSeq(cs) = text
      /\ text # << >> => \A i \in 1..Len(cs) : Fits(cs[i], max)
  BY ChunkInputCuts
<1> HIDE DEF cs
<1>2. DOMAIN cs = 1..Len(cs)
  BY <1>1, LenProperties
<1>3. text # << >> => \A i \in DOMAIN cs : TextTokens(cs[i]) <= max \/ Len(cs[i]) = 1
  BY <1>1, <1>2 DEF Fits
<1> QED
  BY <1>1, <1>3 DEF cs

-----------------------------------------------------------------------------
(***************************************************************************)
(* The answer is the text, up to where the loop stopped                    *)
(***************************************************************************)
ChunksOf(r) == IF Streaming(r) THEN chunkInput(r.text, ChunkSize) ELSE <<r.text>>

\* The chunks cs are those already in the output o and those still to do.
Covered(o, left, cs) ==
  /\ left \in Seq(Seq(Line)) /\ Len(o) + Len(left) = Len(cs)
  /\ \A i \in 1..Len(o) : o[i].text = cs[i]
  /\ \A i \in 1..Len(left) : left[i] = cs[Len(o) + i]

Working == {"process", "post", "store"}

CoverInv ==
  /\ snap = [p \in Proc |-> snap[p]]
  /\ \A p \in Proc :
       /\ pc[p] = "lookup" => key[p].text = req[p].text
       /\ pc[p] \in Working => todo[p] # << >> /\ Covered(out[p], todo[p], ChunksOf(req[p]))

LEMMA RequestChunks ==
  ASSUME NEW r \in Requests
  PROVE  /\ r.text \in Seq(Line)
         /\ ChunksOf(r) \in Seq(Seq(Line)) /\ ChunksOf(r) # << >>
         /\ FlattenSeq(ChunksOf(r)) = r.text
<1>1. r.text \in Seq(Line) /\ ChunkSize \in Nat
  BY ManagerConfigAssumption DEF RequestType
<1>2. CASE Streaming(r)
  BY <1>1, <1>2, ChunkInputCuts DEF ChunksOf
<1>3. CASE ~Streaming(r)
  <2>1. ChunksOf(r) = <<r.text>> /\ <<r.text>> \in Seq(Seq(Line)) /\ <<r.text>> # << >>
    BY <1>1, <1>3 DEF ChunksOf
  <2> QED
    BY <1>1, <2>1, FlattenSeqOfOne
<1> QED
  BY <1>2, <1>3

LEMMA CoveredAtFirst ==
  ASSUME NEW cs \in Seq(Seq(Line))
  PROVE  Covered(<< >>, cs, cs)
<1>1. Len(<< >>) = 0 /\ Len(cs) \in Nat
  OBVIOUS
<1> QED
  BY <1>1 DEF Covered

LEMMA CoveredNext ==
  ASSUME NEW S, NEW o \in Seq(S), NEW left, left # << >>, NEW cs, Covered(o, left, cs),
         NEW x, x.text = Head(left)
  PROVE  Covered(Append(o, x), Tail(left), cs)
<1> DEFINE n == Len(o)
           m == Len(left)
           longer == Append(o, x)
           rest == Tail(left)
<1>1. /\ left \in Seq(Seq(Line)) /\ n + m = Len(cs)
      /\ \A i \in 1..n : o[i].text = cs[i]
      /\ \A i \in 1..m : left[i] = cs[n + i]
  BY DEF Covered
<1>2. n \in Nat /\ m \in Nat /\ m # 0 /\ Head(left) = left[1]
  BY <1>1, EmptySeq
<1>3. /\ rest \in Seq(Seq(Line)) /\ Len(rest) = m - 1
      /\ \A i \in 1..Len(rest) : rest[i] = left[i + 1]
  BY <1>1, HeadTailProperties
<1>4. /\ DOMAIN longer = 1..(n + 1) /\ longer \in Seq(S \union {x}) /\ DOMAIN o = 1..n
      /\ \A i \in DOMAIN o : longer[i] = o[i]
      /\ longer[n + 1] = x
  BY AppendAdds
<1>5. Len(longer) = n + 1
  BY <1>2, <1>4, LenProperties
<1> HIDE DEF n, m, longer, rest
<1>6. ASSUME NEW i \in 1..(n + 1) PROVE longer[i].text = cs[i]
  <2>1. CASE i \in 1..n
    BY <1>1, <1>4, <2>1
  <2>2. CASE i = n + 1
    BY <1>1, <1>2, <1>4, <2>2
  <2> QED
    BY <1>2, <2>1, <2>2
<1>7. ASSUME NEW i \in 1..(m - 1) PROVE rest[i] = cs[(n + 1) + i]
  <2>1. i + 1 \in 1..m /\ n + (i + 1) = (n + 1) + i
    BY <1>2
  <2>2. rest[i] = left[i + 1] /\ left[i + 1] = cs[n + (i + 1)]
    BY <1>1, <1>3, <2>1
  <2> QED
    BY <2>1, <2>2
<1>8. (n + 1) + (m - 1) = Len(cs)
  <2>1. (n + 1) + (m - 1) = n + m
    BY <1>2
  <2> QED
    BY <1>1, <2>1
<1>9. Covered(longer, rest, cs)
  BY <1>3, <1>5, <1>6, <1>7, <1>8, Zenon DEF Covered
<1> QED
  BY <1>9 DEF longer, rest

LEMMA PrefixOfConcat ==
  ASSUME NEW a \in Seq(Line), NEW b \in Seq(Line)
  PROVE  IsPrefix(a, a \o b)
<1>1. Len(a) \in Nat /\ Len(b) \in Nat /\ Len(a \o b) = Len(a) + Len(b)
  BY ConcatProperties
<1>2. CASE Len(a) = 0
  <2>1. SubSeq(a, 1, 0) = << >> /\ SubSeq(a \o b, 1, 0) = << >>
    BY SubSeqEmpty
  <2> QED
    BY <1>1, <1>2, <2>1 DEF IsPrefix
<1>3. CASE Len(a) # 0
  <2>1. 1 \in 1..Len(a) /\ Len(a) \in 1..Len(a)
    BY <1>1, <1>3
  <2>2. SubSeq(a \o b, 1, Len(a)) = SubSeq(a, 1, Len(a))
    BY <2>1, SubSeqOfConcat1
  <2> QED
    BY <1>1, <2>2 DEF IsPrefix
<1> QED
  BY <1>2, <1>3

\* What is covered is the text up to the chunks that are left.
LEMMA CoveredIsPrefix ==
  ASSUME NEW S, NEW o \in Seq(S), NEW left, NEW cs \in Seq(Seq(Line)), Covered(o, left, cs)
  PROVE  /\ IsPrefix(TextOf(o), FlattenSeq(cs))
         /\ left = << >> => TextOf(o) = FlattenSeq(cs)
<1> DEFINE n == Len(o)
           m == Len(left)
           texts == [i \in DOMAIN o |-> o[i].text]
<1>1. /\ n \in Nat /\ m \in Nat /\ DOMAIN o = 1..n /\ DOMAIN cs = 1..Len(cs)
      /\ left \in Seq(Seq(Line)) /\ n + m = Len(cs)
      /\ \A i \in 1..n : o[i].text = cs[i]
      /\ \A i \in 1..m : left[i] = cs[n + i]
  BY DEF Covered
<1>2. texts = [i \in 1..n |-> cs[i]]
  BY <1>1
<1> HIDE DEF texts, n, m
<1>3. \A i \in 1..n : cs[i] \in Seq(Line)
  BY <1>1, ElementOfSeq
<1>4. texts \in Seq(Seq(Line)) /\ Len(texts) = n /\ \A i \in 1..n : texts[i] = cs[i]
  BY <1>1, <1>2, <1>3
<1>5. cs = texts \o left
  <2>1. /\ texts \o left \in Seq(Seq(Line)) /\ Len(texts \o left) = n + m
        /\ \A i \in 1..(n + m) : (texts \o left)[i] = IF i <= n THEN texts[i] ELSE left[i - n]
    BY <1>1, <1>4, ConcatProperties, SMTT(30) DEF m
  <2>2. ASSUME NEW i \in 1..(n + m) PROVE (texts \o left)[i] = cs[i]
    <3>1. CASE i <= n
      BY <1>1, <1>4, <2>1, <3>1
    <3>2. CASE ~(i <= n)
      <4>1. i - n \in 1..m /\ n + (i - n) = i
        BY <1>1, <3>2
      <4>2. left[i - n] = cs[n + (i - n)]
        BY <1>1, <4>1
      <4> QED
        BY <2>1, <3>2, <4>1, <4>2
    <3> QED
      BY <3>1, <3>2
  <2>3. Len(texts \o left) = Len(cs) /\ \A i \in 1..Len(cs) : (texts \o left)[i] = cs[i]
    BY <1>1, <2>1, <2>2
  <2> QED
    BY <2>1, <2>3, SeqEqual
<1>6. FlattenSeq(cs) = FlattenSeq(texts) \o FlattenSeq(left)
  BY <1>1, <1>4, <1>5, FlattenSeqOfConcat
<1>7. FlattenSeq(texts) \in Seq(Line) /\ FlattenSeq(left) \in Seq(Line)
  <2>1. << >> \in Seq(Line)
    OBVIOUS
  <2> QED
    BY <1>1, <1>4, <2>1, FlattenSeqOfAppend
<1>8. TextOf(o) = FlattenSeq(texts)
  BY DEF TextOf, texts
<1>9. FlattenSeq(<< >>) = << >>
  BY DEF FlattenSeq
<1>10. FlattenSeq(texts) \o << >> = FlattenSeq(texts)
  BY <1>7, ConcatEmptySeq
<1> QED
  BY <1>6, <1>7, <1>8, <1>9, <1>10, PrefixOfConcat

LEMMA CoverInitInv == Init => CoverInv
BY DEF Init, CoverInv, Working

LEMMA CoverStepInv == ManagerInv /\ CoverInv /\ [Next]_vars => CoverInv'
<1> SUFFICES ASSUME ManagerInv, CoverInv, [Next]_vars PROVE CoverInv'
  OBVIOUS
<1> USE DEF CoverInv, Working
<1>0. /\ pc \in [Proc -> States] /\ req \in [Proc -> Requests]
      /\ key = [p \in Proc |-> key[p]] /\ todo = [p \in Proc |-> todo[p]]
      /\ out = [p \in Proc |-> out[p]]
  BY DEF ManagerInv, Shape
<1>1. ASSUME NEW p \in Proc, NEW r \in Requests, Start(p, r) PROVE CoverInv'
  BY <1>0, <1>1 DEF Start
<1>2. ASSUME NEW p \in Proc, TooLarge(p) PROVE CoverInv'
  BY <1>0, <1>2 DEF TooLarge
<1>3. ASSUME NEW p \in Proc, ReadKey(p) PROVE CoverInv'
  BY <1>0, <1>3 DEF ReadKey, cacheKey
<1>4. ASSUME NEW p \in Proc, LookupHit(p) PROVE CoverInv'
  BY <1>0, <1>4 DEF LookupHit
<1>5. ASSUME NEW p \in Proc, LookupMiss(p) PROVE CoverInv'
  BY <1>0, <1>5 DEF LookupMiss
<1>6. ASSUME NEW p \in Proc, Split(p) PROVE CoverInv'
  <2> DEFINE cs == ChunksOf(req[p])
  <2>1. /\ pc[p] = "split" /\ pc' = [pc EXCEPT ![p] = "process"]
        /\ todo' = [todo EXCEPT ![p] = cs] /\ UNCHANGED <<req, key, out>>
    BY <1>6 DEF Split, ChunksOf
  <2>2. out[p] = << >>
    BY <2>1 DEF ManagerInv, NoEarlyOutput
  <2>3. cs \in Seq(Seq(Line)) /\ cs # << >>
    BY <1>0, RequestChunks
  <2>4. Covered(<< >>, cs, cs)
    BY <2>3, CoveredAtFirst
  <2>5. snap' = [q \in Proc |-> snap'[q]]
    BY <1>6 DEF Split
  <2> HIDE DEF cs
  <2> QED
    BY <1>0, <2>1, <2>2, <2>3, <2>4, <2>5 DEF cs
<1>7. ASSUME NEW p \in Proc, ProcessChunk(p) PROVE CoverInv'
  BY <1>0, <1>7 DEF ProcessChunk
<1>8. ASSUME NEW p \in Proc, Post(p) PROVE CoverInv'
  BY <1>0, <1>8 DEF Post
<1>9. ASSUME NEW p \in Proc, StoreResult(p) PROVE CoverInv'
  <2>1. /\ pc[p] = "store"
        /\ out' = [out EXCEPT ![p] = Append(out[p], piece[p])]
        /\ todo' = [todo EXCEPT ![p] = Tail(todo[p])]
        /\ \/ pc' = [pc EXCEPT ![p] = "done"]
           \/ pc' = [pc EXCEPT ![p] = "process"] /\ Tail(todo[p]) # << >>
        /\ UNCHANGED <<req, key, snap>>
    BY <1>9 DEF StoreResult
  <2>2. piece[p].text = Head(todo[p])
    BY <2>1 DEF ManagerInv, PieceIsOwn
  <2>3. PICK S : out[p] \in Seq(S)
    BY DEF ManagerInv, Shape
  <2>4. Covered(Append(out[p], piece[p]), Tail(todo[p]), ChunksOf(req[p]))
    BY <2>1, <2>2, <2>3, CoveredNext
  <2> QED
    BY <1>0, <2>1, <2>4
<1>10. ASSUME NEW p \in Proc, Return(p) PROVE CoverInv'
  BY <1>0, <1>10 DEF Return
<1>11. CASE Tick
  BY <1>11 DEF Tick, localVars
<1>12. CASE UNCHANGED vars
  BY <1>12 DEF vars, localVars
<1> QED
  BY <1>1, <1>2, <1>3, <1>4, <1>5, <1>6, <1>7, <1>8, <1>9, <1>10, <1>11, <1>12
  DEF Next, Serve

\* An output that may be returned for r by a loop that read the budget b.
Complete(o, r, b) ==
  /\ IsPrefix(TextOf(o), r.text)
  /\ TextOf(o) # r.text => ShortCircuitBudget /\ b > 0 /\ Size(o) <= b

\* The step that finishes a request has covered its text, or had the right
\* to stop.
LEMMA DoneIsComplete ==
  ManagerInv /\ CoverInv /\ ChunksInOrder /\ [Next]_vars => ChunksInOrder'
<1> SUFFICES ASSUME ManagerInv, CoverInv, ChunksInOrder, [Next]_vars
             PROVE  ChunksInOrder'
  OBVIOUS
<1>0. /\ pc \in [Proc -> States] /\ req \in [Proc -> Requests]
      /\ out = [p \in Proc |-> out[p]] /\ snap = [p \in Proc |-> snap[p]]
  BY DEF ManagerInv, Shape, CoverInv
<1>a. \A p \in Proc : pc[p] = "done" => Complete(out[p], req[p], snap[p])
  BY DEF ChunksInOrder, Complete
<1>b. (\A p \in Proc : pc'[p] = "done" => Complete(out'[p], req'[p], snap'[p])) => ChunksInOrder'
  BY DEF ChunksInOrder, Complete
<1>1. CASE UNCHANGED <<pc, req, out, snap>>
  BY <1>1, <1>a, <1>b
<1>2. ASSUME NEW p \in Proc, UNCHANGED out, NEW l \in States, l # "done",
             pc' = [pc EXCEPT ![p] = l],
             \A q \in Proc \ {p} : req'[q] = req[q] /\ snap'[q] = snap[q]
      PROVE  ChunksInOrder'
  <2>1. ASSUME NEW q \in Proc, pc'[q] = "done"
        PROVE  Complete(out'[q], req'[q], snap'[q])
    <3>1. q # p /\ pc[q] = "done" /\ req'[q] = req[q] /\ snap'[q] = snap[q]
      BY <1>0, <1>2, <2>1
    <3> QED
      BY <1>2, <1>a, <3>1
  <2> QED
    BY <2>1, <1>b
<1>3. ASSUME NEW p \in Proc, UNCHANGED req, NEW l \in States, NEW o,
             pc' = [pc EXCEPT ![p] = l], out' = [out EXCEPT ![p] = o],
             \A q \in Proc \ {p} : snap'[q] = snap[q],
             l = "done" => Complete(o, req[p], snap'[p])
      PROVE  ChunksInOrder'
  <2>1. ASSUME NEW q \in Proc, pc'[q] = "done"
        PROVE  Complete(out'[q], req'[q], snap'[q])
    <3>1. CASE q = p
      <4>1. out'[q] = o /\ l = "done"
        BY <1>0, <1>3, <2>1, <3>1
      <4> QED
        BY <1>3, <3>1, <4>1
    <3>2. CASE q # p
      <4>1. out'[q] = out[q] /\ pc[q] = "done" /\ snap'[q] = snap[q] /\ req'[q] = req[q]
        BY <1>0, <1>3, <2>1, <3>2
      <4> QED
        BY <1>a, <4>1
    <3> QED
      BY <3>1, <3>2
  <2> QED
    BY <2>1, <1>b
<1>4. ASSUME NEW p \in Proc, NEW r \in Requests, Start(p, r) PROVE ChunksInOrder'
  <2>1. /\ UNCHANGED out /\ pc' = [pc EXCEPT ![p] = "key"]
        /\ \A q \in Proc \ {p} : req'[q] = req[q] /\ snap'[q] = snap[q]
    BY <1>0, <1>4 DEF Start
  <2> QED
    BY <1>2, <2>1 DEF States
<1>5. ASSUME NEW p \in Proc, LookupHit(p) PROVE ChunksInOrder'
  <2> DEFINE e == cache[key[p]]
  <2>1. /\ pc[p] = "lookup" /\ UNCHANGED <<req, snap>> /\ pc' = [pc EXCEPT ![p] = "done"]
        /\ out' = [out EXCEPT ![p] = <<e>>] /\ key[p] \in DOMAIN cache
    BY <1>5 DEF LookupHit
  <2>2. e.text = req[p].text
    BY <2>1 DEF ManagerInv, CacheHoldsItsKey, CoverInv
  <2> HIDE DEF e
  <2>3. [i \in DOMAIN <<e>> |-> <<e>>[i].text] = <<e.text>>
    OBVIOUS
  <2>4. FlattenSeq(<<e.text>>) = req[p].text /\ req[p].text \in Seq(Line)
    BY <1>0, <2>2, RequestChunks, FlattenSeqOfOne
  <2>5. TextOf(<<e>>) = req[p].text
    BY <2>3, <2>4 DEF TextOf
  <2>6. IsPrefix(req[p].text, req[p].text)
    BY <2>4, LenProperties DEF IsPrefix
  <2>7. Complete(<<e>>, req[p], snap'[p])
    BY <2>5, <2>6 DEF Complete
  <2> QED
    BY <1>3, <2>1, <2>7 DEF States
<1>6. ASSUME NEW p \in Proc, StoreResult(p) PROVE ChunksInOrder'
  <2> DEFINE o == Append(out[p], piece[p])
             cs == ChunksOf(req[p])
  <2>1. /\ pc[p] = "store" /\ out' = [out EXCEPT ![p] = o] /\ UNCHANGED <<req, snap>>
    BY <1>6 DEF StoreResult
  <2>2. out'[p] = o
    BY <1>0, <2>1
  <2>3. \/ /\ pc' = [pc EXCEPT ![p] = "done"]
           /\ Tail(todo[p]) = << >> \/ (ShortCircuitBudget /\ snap[p] > 0 /\ Size(o) <= snap[p])
        \/ pc' = [pc EXCEPT ![p] = "process"]
    BY <1>6, <2>2 DEF StoreResult
  <2>4. piece[p].text = Head(todo[p])
    BY <2>1 DEF ManagerInv, PieceIsOwn
  <2>5. PICK S : out[p] \in Seq(S)
    BY DEF ManagerInv, Shape
  <2>6. Covered(o, Tail(todo[p]), cs)
    BY <2>1, <2>4, <2>5, CoveredNext DEF CoverInv, Working
  <2>7. o \in Seq(S \union {piece[p]})
    BY <2>5, AppendAdds
  <2>8. cs \in Seq(Seq(Line)) /\ FlattenSeq(cs) = req[p].text
    BY <1>0, RequestChunks
  <2> HIDE DEF o, cs
  <2>9. IsPrefix(TextOf(o), req[p].text) /\ (Tail(todo[p]) = << >> => TextOf(o) = req[p].text)
    BY <2>6, <2>7, <2>8, CoveredIsPrefix
  <2>10. CASE /\ pc' = [pc EXCEPT ![p] = "done"]
              /\ Tail(todo[p]) = << >> \/ (ShortCircuitBudget /\ snap[p] > 0 /\ Size(o) <= snap[p])
    <3>1. Complete(o, req[p], snap'[p])
      BY <2>1, <2>9, <2>10 DEF Complete
    <3> QED
      BY <1>3, <2>1, <2>10, <3>1 DEF States
  <2>11. CASE pc' = [pc EXCEPT ![p] = "process"]
    BY <1>3, <2>1, <2>11 DEF States
  <2> QED
    BY <2>3, <2>10, <2>11
<1>7. ASSUME NEW p \in Proc, Return(p) PROVE ChunksInOrder'
  <2>1. /\ UNCHANGED req /\ pc' = [pc EXCEPT ![p] = "idle"] /\ out' = [out EXCEPT ![p] = << >>]
        /\ \A q \in Proc \ {p} : snap'[q] = snap[q]
    BY <1>0, <1>7 DEF Return
  <2> QED
    BY <1>3, <2>1 DEF States
<1>8. ASSUME NEW p \in Proc, Serve(p) PROVE ChunksInOrder'
  <2>1. ASSUME TooLarge(p) \/ ReadKey(p) \/ LookupMiss(p) \/ Split(p) \/ ProcessChunk(p) \/ Post(p)
        PROVE  ChunksInOrder'
    <3>1. \E l \in States \ {"done"} : pc' = [pc EXCEPT ![p] = l]
      BY <2>1 DEF TooLarge, ReadKey, LookupMiss, Split, ProcessChunk, Post, States
    <3>2. UNCHANGED <<req, out>>
      BY <2>1 DEF TooLarge, ReadKey, LookupMiss, Split, ProcessChunk, Post
    <3>3. \A q \in Proc \ {p} : snap'[q] = snap[q]
      BY <1>0, <2>1 DEF TooLarge, ReadKey, LookupMiss, Split, ProcessChunk, Post
    <3> QED
      BY <1>2, <3>1, <3>2, <3>3
  <2> QED
    BY <1>5, <1>6, <1>7, <1>8, <2>1 DEF Serve
<1>9. CASE Tick \/ UNCHANGED vars
  BY <1>1, <1>9 DEF Tick, vars, localVars
<1> QED
  BY <1>4, <1>8, <1>9 DEF Next

\* Whatever the text, the chunk size, the budget and the other requests, an
\* answer is its request's text line for line, be it made in one piece, chunk
\* by chunk or found in the cache; an end is missing only with the short
\* circuit on and what is there within the budget that was read
\* (processStreaming).
THEOREM AnswersAreInOrder == Spec => []ChunksInOrder
<1> DEFINE Inv == ManagerInv /\ CoverInv /\ ChunksInOrder
<1>1. Init => Inv
  <2>1. Init => ChunksInOrder
    BY DEF Init, ChunksInOrder
  <2> QED
    BY <2>1, ManagerInitInv, CoverInitInv
<1>2. Inv /\ [Next]_vars => Inv'
  BY ManagerStepInv, CoverStepInv, DoneIsComplete
<1> QED
  BY <1>1, <1>2, PTL DEF Spec

-----------------------------------------------------------------------------
(***************************************************************************)
(* No answer is empty, where no line of a text counts for nothing          *)
(***************************************************************************)
NoBlankLines == \A l \in Line : LineTokens[l] > 0

\* What processSingle may cache and return, with validation on or off.
Presentable(o, on) == ~Nothing(o) /\ (on = TRUE => o.quality # "unsound")

PresentableInv ==
  /\ validates \in BOOLEAN
  /\ \A k \in DOMAIN cache : Presentable(cache[k], validates)
  /\ \A p \in Proc : pc[p] = "store" => Presentable(piece[p], validates)
  /\ \A p \in Proc : \A i \in DOMAIN out[p] : Presentable(out[p][i], validates)

\* Validation and fail-safe make anything presentable.
LEMMA PostPresents ==
  ASSUME NoBlankLines, FailSafeMode, validates \in BOOLEAN,
         NEW o, o.text \in Seq(Line), NEW r, NEW v, v = Validated(o, r)
  PROVE  Presentable(IF Nothing(v) /\ FailSafeMode THEN Raw(v) ELSE v, validates)
<1>1. Raw(o).text = o.text /\ Raw(o).quality = "good" /\ Raw(o).tokens = TextTokens(o.text)
  BY DEF Raw
<1>2. v = Raw(o) \/ (v = o /\ (validates => validateOutput(o, r)))
  BY DEF Validated
<1>3. v.text = o.text
  BY <1>1, <1>2
<1>4. ~Nothing(Raw(v)) /\ Raw(v).quality = "good"
  <2>1. Raw(v).text = o.text /\ Raw(v).tokens = TextTokens(o.text) /\ Raw(v).quality = "good"
    BY <1>3 DEF Raw
  <2>2. o.text # << >> => TextTokens(o.text) \in Nat /\ TextTokens(o.text) > 0
    BY TextTokensOfText DEF NoBlankLines
  <2>3. ASSUME NEW x \in Nat, x > 0 PROVE x # 0
    BY <2>3
  <2> QED
    BY <2>1, <2>2, <2>3 DEF Nothing
<1>5. validates => v.quality # "unsound"
  BY <1>1, <1>2 DEF validateOutput
<1> QED
  BY <1>4, <1>5 DEF Presentable

LEMMA PresentableStep ==
  NoBlankLines /\ FailSafeMode =>
    (ManagerInv /\ CoverInv /\ PresentableInv /\ [Next]_vars => PresentableInv')
<1> SUFFICES ASSUME NoBlankLines, FailSafeMode, ManagerInv, CoverInv, PresentableInv, [Next]_vars
             PROVE  PresentableInv'
  OBVIOUS
<1> USE DEF PresentableInv
<1>0. /\ pc \in [Proc -> States] /\ req \in [Proc -> Requests]
      /\ piece = [p \in Proc |-> piece[p]] /\ out = [p \in Proc |-> out[p]]
  BY DEF ManagerInv, Shape
<1>1. CASE UNCHANGED <<validates, cache, piece, pc, out>>
  BY <1>1
<1>2. ASSUME NEW p \in Proc, NEW r \in Requests, Start(p, r) PROVE PresentableInv'
  BY <1>0, <1>2 DEF Start
<1>3. ASSUME NEW p \in Proc,
             TooLarge(p) \/ ReadKey(p) \/ LookupMiss(p) \/ Split(p) \/ ProcessChunk(p)
      PROVE  PresentableInv'
  <2>1. UNCHANGED <<validates, out>> /\ \E l \in States \ {"store"} : pc' = [pc EXCEPT ![p] = l]
    BY <1>3 DEF TooLarge, ReadKey, LookupMiss, Split, ProcessChunk, States, sharedVars, configVars
  <2>2. piece' = piece \/ \E o : piece' = [piece EXCEPT ![p] = o]
    BY <1>3 DEF TooLarge, ReadKey, LookupMiss, Split, ProcessChunk
  <2>3. \A k \in DOMAIN cache' : k \in DOMAIN cache /\ cache'[k] = cache[k]
    BY <1>3 DEF TooLarge, ReadKey, LookupMiss, Split, ProcessChunk, Restrict, sharedVars
  <2>4. ASSUME NEW q \in Proc, pc'[q] = "store" PROVE Presentable(piece'[q], validates)
    BY <1>0, <2>1, <2>2, <2>4
  <2> QED
    BY <2>1, <2>3, <2>4
<1>4. ASSUME NEW p \in Proc, LookupHit(p) PROVE PresentableInv'
  <2> DEFINE e == cache[key[p]]
  <2>1. /\ UNCHANGED <<validates, cache, piece>> /\ pc' = [pc EXCEPT ![p] = "done"]
        /\ out' = [out EXCEPT ![p] = <<e>>] /\ Presentable(e, validates)
    BY <1>4 DEF LookupHit, sharedVars, configVars
  <2> HIDE DEF e
  <2>2. ASSUME NEW q \in Proc, NEW i \in DOMAIN out'[q] PROVE Presentable(out'[q][i], validates)
    BY <1>0, <2>1
  <2> QED
    BY <1>0, <2>1, <2>2
<1>5. ASSUME NEW p \in Proc, Post(p) PROVE PresentableInv'
  <2> DEFINE v == Validated(piece[p], req[p])
             w == IF Nothing(v) /\ FailSafeMode THEN Raw(v) ELSE v
  <2>1. /\ UNCHANGED <<validates, cache, out>> /\ pc' = [pc EXCEPT ![p] = "store"]
        /\ piece' = [piece EXCEPT ![p] = w] /\ pc[p] = "post"
    BY <1>5 DEF Post, configVars
  <2>2. piece[p].text \in Seq(Line)
    <3>1. todo[p] \in Seq(Seq(Line)) /\ todo[p] # << >>
      BY <2>1 DEF CoverInv, Working, Covered
    <3>2. Head(todo[p]) \in Seq(Line)
      BY <3>1, HeadTailProperties
    <3> QED
      BY <2>1, <3>2 DEF ManagerInv, PieceIsOwn
  <2>3. Presentable(w, validates)
    <3> HIDE DEF v
    <3>1. v = Validated(piece[p], req[p])
      BY DEF v
    <3> QED
      BY <2>2, <3>1, PostPresents
  <2> HIDE DEF w
  <2> QED
    BY <1>0, <2>1, <2>3
<1>6. ASSUME NEW p \in Proc, StoreResult(p) PROVE PresentableInv'
  <2> DEFINE s == Append(out[p], piece[p])
  <2>1. /\ pc[p] = "store" /\ out' = [out EXCEPT ![p] = s] /\ UNCHANGED <<validates, piece>>
        /\ \E l \in {"done", "process"} : pc' = [pc EXCEPT ![p] = l]
    BY <1>6 DEF StoreResult, configVars
  <2>2. Presentable(piece[p], validates)
    BY <2>1
  <2>3. ASSUME NEW k \in DOMAIN cache' PROVE Presentable(cache'[k], validates)
    <3>1. \/ k = key[p] /\ cache'[k] = piece[p]
          \/ k \in DOMAIN cache /\ cache'[k] = cache[k]
      BY <1>6, CacheSetEntries DEF StoreResult
    <3> QED
      BY <2>2, <3>1
  <2>4. PICK S : out[p] \in Seq(S)
    BY DEF ManagerInv, Shape
  <2>5. /\ DOMAIN s = 1..(Len(out[p]) + 1) /\ DOMAIN out[p] = 1..Len(out[p]) /\ Len(out[p]) \in Nat
        /\ \A i \in DOMAIN out[p] : s[i] = out[p][i]
        /\ s[Len(out[p]) + 1] = piece[p]
    BY <2>4, AppendAdds
  <2> HIDE DEF s
  <2>6. ASSUME NEW i \in DOMAIN s PROVE Presentable(s[i], validates)
    <3>1. i \in DOMAIN out[p] \/ i = Len(out[p]) + 1
      BY <2>5
    <3> QED
      BY <2>2, <2>5, <3>1
  <2>7. ASSUME NEW q \in Proc, NEW i \in DOMAIN out'[q] PROVE Presentable(out'[q][i], validates)
    BY <1>0, <2>1, <2>6
  <2>8. ASSUME NEW q \in Proc, pc'[q] = "store" PROVE Presentable(piece'[q], validates)
    BY <1>0, <2>1, <2>8
  <2> QED
    BY <2>1, <2>3, <2>7, <2>8
<1>7. ASSUME NEW p \in Proc, Return(p) PROVE PresentableInv'
  <2>1. /\ UNCHANGED <<validates, cache>> /\ pc' = [pc EXCEPT ![p] = "idle"]
        /\ out' = [out EXCEPT ![p] = << >>] /\ piece' = [piece EXCEPT ![p] = NoPiece]
    BY <1>7 DEF Return, sharedVars, configVars
  <2>2. ASSUME NEW q \in Proc, NEW i \in DOMAIN out'[q] PROVE Presentable(out'[q][i], validates)
    BY <1>0, <2>1
  <2>3. ASSUME NEW q \in Proc, pc'[q] = "store" PROVE Presentable(piece'[q], validates)
    BY <1>0, <2>1, <2>3
  <2> QED
    BY <2>1, <2>2, <2>3
<1>8. CASE Tick \/ UNCHANGED vars
  BY <1>1, <1>8 DEF Tick, vars, localVars, sharedVars, configVars
<1> QED
  BY <1>2, <1>3, <1>4, <1>5, <1>6, <1>7, <1>8 DEF Next, Serve

\* With the fail-safe on, no non-empty text is answered by nothing, and with
\* validation on none by a damaged output, whatever the compression made of
\* it and whichever request's result the cache returns (processSingle).
THEOREM AnswersAreNeverEmpty == NoBlankLines => (Spec => []NeverEmpty)
<1> SUFFICES ASSUME NoBlankLines PROVE Spec => []NeverEmpty
  OBVIOUS
<1>1. CASE FailSafeMode
  <2> DEFINE Inv == ManagerInv /\ CoverInv /\ PresentableInv
  <2>1. Init => Inv
    <3>1. Init => PresentableInv
      BY ManagerConfigAssumption DEF Init, PresentableInv
    <3> QED
      BY <3>1, ManagerInitInv, CoverInitInv
  <2>2. Inv /\ [Next]_vars => Inv'
    BY <1>1, ManagerStepInv, CoverStepInv, PresentableStep
  <2>3. Inv => NeverEmpty
    BY DEF PresentableInv, Presentable, NeverEmpty
  <2> QED
    BY <2>1, <2>2, <2>3, PTL DEF Spec
<1>2. CASE ~FailSafeMode
  <2>1. NeverEmpty
    BY <1>2 DEF NeverEmpty
  <2> QED
    BY <2>1, PTL
<1> QED
  BY <1>1, <1>2

-----------------------------------------------------------------------------
(***************************************************************************)
(* The budget, until it is changed while a request is served               *)
(***************************************************************************)
\* An output or a cached result made under budget b, or the input itself.
Under(o, b) == o.raw = TRUE \/ o.budget = b

CacheBudgets == \A k \in DOMAIN cache : Under(cache[k], k.budget)

\* The coordinator's budget stays that of the request from Start to Return,
\* so the key, which is read twice, and the piece agree on it.
BudgetOf(p) ==
  /\ pc[p] # "idle" /\ req[p].entry = "ProcessWithBudget" => budget = req[p].budget
  /\ pc[p] \in {"lookup", "store"} => key[p].budget = budget
  /\ pc[p] \in {"post", "store"} => Under(piece[p], budget)
  /\ req[p].entry = "ProcessWithBudget" =>
       \A i \in DOMAIN out[p] : Under(out[p][i], req[p].budget)

BudgetInv == ~disturbed => CacheBudgets /\ \A p \in Proc : BudgetOf(p)

\* A goroutine that does nothing while the budget stays.
LEMMA OthersKeepBudget ==
  ASSUME NEW q, BudgetOf(q), UNCHANGED budget,
         pc'[q] = pc[q], req'[q] = req[q], key'[q] = key[q], piece'[q] = piece[q], out'[q] = out[q]
  PROVE  BudgetOf(q)'
BY DEF BudgetOf

LEMMA BudgetStep == ManagerInv /\ BudgetInv /\ [Next]_vars => BudgetInv'
<1> SUFFICES ASSUME ManagerInv, BudgetInv, [Next]_vars, ~disturbed'
             PROVE  CacheBudgets' /\ \A q \in Proc : BudgetOf(q)'
  BY DEF BudgetInv
<1>0. /\ pc \in [Proc -> States] /\ req \in [Proc -> Requests]
      /\ key = [p \in Proc |-> key[p]]
      /\ piece = [p \in Proc |-> piece[p]] /\ out = [p \in Proc |-> out[p]]
  BY DEF ManagerInv, Shape
<1>1. CacheBudgets /\ \A p \in Proc : BudgetOf(p)
  <2>1. CASE UNCHANGED disturbed
    BY <2>1 DEF BudgetInv
  <2>2. ASSUME NEW p \in Proc, NEW r \in Requests, Start(p, r) PROVE ~disturbed
    BY <2>2 DEF Start, setBudget
  <2> QED
    BY <2>1, <2>2
    DEF BudgetInv, Next, Serve, vars, sharedVars, configVars, TooLarge, ReadKey, LookupHit,
        LookupMiss, Split, ProcessChunk, Post, StoreResult, Return, Tick
<1>a. ASSUME NEW p \in Proc, UNCHANGED budget, CacheBudgets', BudgetOf(p)',
             \A q \in Proc \ {p} :
               /\ pc'[q] = pc[q] /\ req'[q] = req[q]
               /\ key'[q] = key[q] /\ piece'[q] = piece[q] /\ out'[q] = out[q]
      PROVE  CacheBudgets' /\ \A q \in Proc : BudgetOf(q)'
  <2>1. ASSUME NEW q \in Proc PROVE BudgetOf(q)'
    <3>1. CASE q = p
      BY <1>a, <3>1
    <3>2. CASE q # p
      BY <1>1, <1>a, <3>2, OthersKeepBudget
    <3> QED
      BY <3>1, <3>2
  <2> QED
    BY <1>a, <2>1
<1>2. ASSUME NEW p \in Proc, NEW r \in Requests, Start(p, r)
      PROVE  CacheBudgets' /\ \A q \in Proc : BudgetOf(q)'
  <2>1. /\ pc[p] = "idle" /\ req' = [req EXCEPT ![p] = r] /\ pc' = [pc EXCEPT ![p] = "key"]
        /\ budget' = IF r.entry = "ProcessWithBudget" THEN r.budget ELSE budget
        /\ UNCHANGED <<cache, key, piece, out>>
    BY <1>2 DEF Start, setBudget
  <2>2. out[p] = << >>
    BY <2>1 DEF ManagerInv, NoEarlyOutput
  <2>3. pc'[p] = "key" /\ req'[p] = r
    BY <1>0, <2>1
  <2>4. BudgetOf(p)' /\ CacheBudgets'
    BY <1>1, <2>1, <2>2, <2>3 DEF BudgetOf, CacheBudgets
  <2>5. \A q \in Proc \ {p} : pc'[q] = pc[q] /\ req'[q] = req[q]
    BY <1>0, <2>1
  <2>6. CASE UNCHANGED budget
    BY <1>a, <2>1, <2>4, <2>5, <2>6
  <2>7. CASE budget' # budget
    <3>1. \A q \in Proc \ {p} : pc[q] = "idle"
      <4>1. PICK b : /\ budget' = b
                     /\ disturbed' = (disturbed \/ (b # budget /\ \E q \in Proc \ {p} : pc[q] # "idle"))
        BY <1>2 DEF Start, setBudget
      <4>2. ~(b # budget /\ \E q \in Proc \ {p} : pc[q] # "idle")
        BY <4>1
      <4> QED
        BY <2>7, <4>1, <4>2
    <3>2. ASSUME NEW q \in Proc, q # p PROVE BudgetOf(q)'
      <4>1. pc'[q] = "idle" /\ out'[q] = << >>
        BY <2>1, <2>5, <3>1, <3>2 DEF ManagerInv, NoEarlyOutput
      <4> QED
        BY <4>1 DEF BudgetOf
    <3> QED
      BY <2>4, <3>2
  <2> QED
    BY <2>6, <2>7
<1>3. ASSUME NEW p \in Proc, TooLarge(p)
      PROVE  CacheBudgets' /\ \A q \in Proc : BudgetOf(q)'
  <2>1. /\ pc' = [pc EXCEPT ![p] = "idle"] /\ pc[p] = "key"
        /\ UNCHANGED <<budget, cache, req, key, piece, out>>
    BY <1>3 DEF TooLarge, sharedVars, configVars
  <2>2. pc'[p] = "idle" /\ \A q \in Proc \ {p} : pc'[q] = pc[q]
    BY <1>0, <2>1
  <2>3. BudgetOf(p)' /\ CacheBudgets'
    BY <1>1, <2>1, <2>2 DEF BudgetOf, CacheBudgets
  <2> QED
    BY <1>a, <2>1, <2>2, <2>3
<1>4. ASSUME NEW p \in Proc, ReadKey(p)
      PROVE  CacheBudgets' /\ \A q \in Proc : BudgetOf(q)'
  <2>1. /\ pc[p] = "key" /\ UNCHANGED <<budget, cache, req, piece, out>>
        /\ key' = [key EXCEPT ![p] = cacheKey(req[p].text, req[p])]
        /\ pc' = [pc EXCEPT ![p] = IF CacheEnabled THEN "lookup" ELSE "split"]
    BY <1>4 DEF ReadKey, sharedVars, configVars
  <2>2. key'[p].budget = budget /\ pc'[p] \in {"lookup", "split"}
    BY <1>0, <2>1 DEF cacheKey
  <2>3. \A q \in Proc \ {p} : pc'[q] = pc[q] /\ key'[q] = key[q]
    <3> DEFINE nk == cacheKey(req[p].text, req[p])
               np == IF CacheEnabled THEN "lookup" ELSE "split"
    <3>1. key' = [key EXCEPT ![p] = nk] /\ pc' = [pc EXCEPT ![p] = np]
      BY <2>1
    <3> HIDE DEF nk, np
    <3> QED
      BY <1>0, <3>1
  <2>4. BudgetOf(p)' /\ CacheBudgets'
    BY <1>1, <2>1, <2>2 DEF BudgetOf, CacheBudgets
  <2> QED
    BY <1>a, <2>1, <2>3, <2>4
<1>5. ASSUME NEW p \in Proc, LookupHit(p)
      PROVE  CacheBudgets' /\ \A q \in Proc : BudgetOf(q)'
  <2> DEFINE e == cache[key[p]]
  <2>1. /\ pc[p] = "lookup" /\ UNCHANGED <<budget, cache, req, key, piece>>
        /\ pc' = [pc EXCEPT ![p] = "done"] /\ out' = [out EXCEPT ![p] = <<e>>]
        /\ key[p] \in DOMAIN cache
    BY <1>5 DEF LookupHit, sharedVars, configVars
  <2>2. Under(e, budget)
    BY <1>1, <2>1 DEF BudgetOf, CacheBudgets
  <2> HIDE DEF e
  <2>3. pc'[p] = "done" /\ out'[p] = <<e>>
    BY <1>0, <2>1
  <2>4. \A q \in Proc \ {p} : pc'[q] = pc[q] /\ out'[q] = out[q]
    BY <1>0, <2>1
  <2>5. req[p].entry = "ProcessWithBudget" => budget = req[p].budget
    BY <1>1, <2>1 DEF BudgetOf
  <2>6. req[p].entry = "ProcessWithBudget" => \A i \in DOMAIN out'[p] : Under(out'[p][i], req[p].budget)
    BY <2>2, <2>3, <2>5
  <2>7. BudgetOf(p)' /\ CacheBudgets'
    BY <1>1, <2>1, <2>3, <2>5, <2>6 DEF BudgetOf, CacheBudgets
  <2> QED
    BY <1>a, <2>1, <2>4, <2>7
<1>6. ASSUME NEW p \in Proc, LookupMiss(p)
      PROVE  CacheBudgets' /\ \A q \in Proc : BudgetOf(q)'
  <2>1. \A k \in DOMAIN cache' : k \in DOMAIN cache /\ cache'[k] = cache[k]
    BY <1>6 DEF LookupMiss, Restrict
  <2>2. /\ pc[p] = "lookup" /\ pc' = [pc EXCEPT ![p] = "split"]
        /\ UNCHANGED <<budget, req, key, piece, out>>
    BY <1>6 DEF LookupMiss, configVars
  <2>3. pc'[p] = "split" /\ \A q \in Proc \ {p} : pc'[q] = pc[q]
    BY <1>0, <2>2
  <2>4. CacheBudgets'
    BY <1>1, <2>1 DEF CacheBudgets
  <2>5. BudgetOf(p)'
    BY <1>1, <2>2, <2>3 DEF BudgetOf
  <2> QED
    BY <1>a, <2>2, <2>3, <2>4, <2>5
<1>7. ASSUME NEW p \in Proc, Split(p)
      PROVE  CacheBudgets' /\ \A q \in Proc : BudgetOf(q)'
  <2>1. /\ pc[p] = "split" /\ pc' = [pc EXCEPT ![p] = "process"]
        /\ UNCHANGED <<budget, cache, req, key, piece, out>>
    BY <1>7 DEF Split, sharedVars, configVars
  <2>2. pc'[p] = "process" /\ \A q \in Proc \ {p} : pc'[q] = pc[q]
    BY <1>0, <2>1
  <2>3. BudgetOf(p)' /\ CacheBudgets'
    BY <1>1, <2>1, <2>2 DEF BudgetOf, CacheBudgets
  <2> QED
    BY <1>a, <2>1, <2>2, <2>3
<1>8. ASSUME NEW p \in Proc, ProcessChunk(p)
      PROVE  CacheBudgets' /\ \A q \in Proc : BudgetOf(q)'
  <2>1. PICK o \in Compressed(Head(todo[p]), mode', filters') : piece' = [piece EXCEPT ![p] = o]
    BY <1>8 DEF ProcessChunk
  <2>2. Under(o, budget)
    BY <2>1 DEF Compressed, Under
  <2>3. /\ pc[p] = "process" /\ pc' = [pc EXCEPT ![p] = "post"]
        /\ UNCHANGED <<budget, cache, req, key, out>>
    BY <1>8 DEF ProcessChunk
  <2>4. pc'[p] = "post" /\ piece'[p] = o
    BY <1>0, <2>1, <2>3
  <2>5. \A q \in Proc \ {p} : pc'[q] = pc[q] /\ piece'[q] = piece[q]
    BY <1>0, <2>1, <2>3
  <2>6. BudgetOf(p)' /\ CacheBudgets'
    BY <1>1, <2>2, <2>3, <2>4 DEF BudgetOf, CacheBudgets
  <2> QED
    BY <1>a, <2>3, <2>5, <2>6
<1>9. ASSUME NEW p \in Proc, Post(p)
      PROVE  CacheBudgets' /\ \A q \in Proc : BudgetOf(q)'
  <2> DEFINE v == Validated(piece[p], req[p])
             w == IF Nothing(v) /\ FailSafeMode THEN Raw(v) ELSE v
             k == cacheKey(Head(todo[p]), req[p])
  <2>1. /\ pc[p] = "post" /\ pc' = [pc EXCEPT ![p] = "store"]
        /\ piece' = [piece EXCEPT ![p] = w]
        /\ key' = [key EXCEPT ![p] = k]
        /\ UNCHANGED <<budget, cache, req, out>>
    BY <1>9 DEF Post, configVars
  <2>2. Under(piece[p], budget)
    BY <1>1, <2>1 DEF BudgetOf
  <2>3. Under(w, budget) /\ k.budget = budget
    BY <2>2 DEF Validated, Raw, Under, cacheKey
  <2> HIDE DEF w, k
  <2>4. pc'[p] = "store" /\ piece'[p] = w /\ key'[p] = k
    BY <1>0, <2>1
  <2>5. \A q \in Proc \ {p} : pc'[q] = pc[q] /\ piece'[q] = piece[q] /\ key'[q] = key[q]
    BY <1>0, <2>1
  <2>6. BudgetOf(p)' /\ CacheBudgets'
    BY <1>1, <2>1, <2>3, <2>4 DEF BudgetOf, CacheBudgets
  <2> QED
    BY <1>a, <2>1, <2>5, <2>6
<1>10. ASSUME NEW p \in Proc, StoreResult(p)
      PROVE  CacheBudgets' /\ \A q \in Proc : BudgetOf(q)'
  <2> DEFINE s == Append(out[p], piece[p])
  <2>1. /\ pc[p] = "store" /\ out' = [out EXCEPT ![p] = s] /\ UNCHANGED <<budget, req, key, piece>>
        /\ \E l \in {"done", "process"} : pc' = [pc EXCEPT ![p] = l]
    BY <1>10 DEF StoreResult, configVars
  <2>2. Under(piece[p], budget) /\ key[p].budget = budget
    BY <1>1, <2>1 DEF BudgetOf
  <2>3. ASSUME NEW k \in DOMAIN cache' PROVE Under(cache'[k], k.budget)
    <3>1. \/ k = key[p] /\ cache'[k] = piece[p]
          \/ k \in DOMAIN cache /\ cache'[k] = cache[k]
      BY <1>10, CacheSetEntries DEF StoreResult
    <3> QED
      BY <1>1, <2>2, <3>1 DEF CacheBudgets
  <2>4. PICK S : out[p] \in Seq(S)
    BY DEF ManagerInv, Shape
  <2>5. /\ DOMAIN s = 1..(Len(out[p]) + 1) /\ DOMAIN out[p] = 1..Len(out[p]) /\ Len(out[p]) \in Nat
        /\ \A i \in DOMAIN out[p] : s[i] = out[p][i]
        /\ s[Len(out[p]) + 1] = piece[p]
    BY <2>4, AppendAdds
  <2> HIDE DEF s
  <2>a. req[p].entry = "ProcessWithBudget" =>
          budget = req[p].budget /\ \A i \in DOMAIN out[p] : Under(out[p][i], req[p].budget)
    BY <1>1, <2>1 DEF BudgetOf
  <2>6. ASSUME req[p].entry = "ProcessWithBudget", NEW i \in DOMAIN s
        PROVE  Under(s[i], req[p].budget)
    <3>1. i \in DOMAIN out[p] \/ i = Len(out[p]) + 1
      BY <2>5
    <3> QED
      BY <2>2, <2>5, <2>6, <2>a, <3>1
  <2>7. out'[p] = s /\ pc'[p] \in {"done", "process"}
    BY <1>0, <2>1
  <2>8. \A q \in Proc \ {p} : pc'[q] = pc[q] /\ out'[q] = out[q]
    BY <1>0, <2>1
  <2>9. BudgetOf(p)'
    BY <2>1, <2>6, <2>7, <2>a DEF BudgetOf
  <2>10. CacheBudgets'
    BY <2>3 DEF CacheBudgets
  <2> QED
    BY <1>a, <2>1, <2>8, <2>9, <2>10
<1>11. ASSUME NEW p \in Proc, Return(p)
      PROVE  CacheBudgets' /\ \A q \in Proc : BudgetOf(q)'
  <2>1. /\ UNCHANGED <<budget, cache, req>> /\ pc' = [pc EXCEPT ![p] = "idle"]
        /\ out' = [out EXCEPT ![p] = << >>] /\ key' = [key EXCEPT ![p] = NoKey]
        /\ piece' = [piece EXCEPT ![p] = NoPiece]
    BY <1>11 DEF Return, sharedVars, configVars
  <2>2. pc'[p] = "idle" /\ out'[p] = << >>
    BY <1>0, <2>1
  <2>3. \A q \in Proc \ {p} :
          pc'[q] = pc[q] /\ out'[q] = out[q] /\ key'[q] = key[q] /\ piece'[q] = piece[q]
    BY <1>0, <2>1
  <2>4. BudgetOf(p)' /\ CacheBudgets'
    BY <1>1, <2>1, <2>2 DEF BudgetOf, CacheBudgets
  <2> QED
    BY <1>a, <2>1, <2>3, <2>4
<1>12. CASE Tick \/ UNCHANGED vars
  <2>1. UNCHANGED <<budget, cache, pc, req, key, piece, out>>
    BY <1>12 DEF Tick, vars, localVars, sharedVars, configVars
  <2> QED
    BY <1>1, <2>1 DEF BudgetOf, CacheBudgets
<1> QED
  BY <1>2, <1>3, <1>4, <1>5, <1>6, <1>7, <1>8, <1>9, <1>10, <1>11, <1>12 DEF Next, Serve

LEMMA BudgetAlways == Spec => []BudgetInv
<1>1. Init => ManagerInv /\ BudgetInv
  <2>1. Init => BudgetInv
    BY DEF Init, BudgetInv, BudgetOf, CacheBudgets
  <2> QED
    BY <2>1, ManagerInitInv
<1>2. ManagerInv /\ BudgetInv /\ [Next]_vars => (ManagerInv /\ BudgetInv)'
  BY ManagerStepInv, BudgetStep
<1> QED
  BY <1>1, <1>2, PTL DEF Spec

\* A ProcessWithBudget call is compressed under its own budget, chunk by chunk,
\* whatever calls came before it and whatever calls are served beside it, as
\* long as none has changed the budget while another was served.
THEOREM RequestGetsItsBudget == Spec => []BudgetIsOwn
<1>1. BudgetInv => BudgetIsOwn
  BY DEF BudgetInv, BudgetOf, Under, BudgetIsOwn, BudgetHonoured
<1> QED
  BY <1>1, BudgetAlways, PTL

\* Under the same condition no cached result was compressed under another
\* budget than the one in its key, although processSingle reads the budget
\* for the key again after it has compressed.
THEOREM CacheKeepsBudgets == Spec => []CacheHoldsItsBudget
<1>1. BudgetInv => CacheHoldsItsBudget
  BY DEF BudgetInv, CacheBudgets, Under, CacheHoldsItsBudget
<1> QED
  BY <1>1, BudgetAlways, PTL
=============================================================================
