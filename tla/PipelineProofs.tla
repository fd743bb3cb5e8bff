--------------------------- MODULE PipelineProofs ---------------------------
(***************************************************************************)
(* The safety of Pipeline, for any pipelines of users, any handlers, roles *)
(* and number of edits.                                                    *)
(***************************************************************************)
EXTENDS Pipeline, WellFoundedInduction, TLAPS

Path(w) == seen[w] \o todo[w]
Order(w) == IF w = "writer" THEN Reverse(Objects(handlers)) ELSE Objects(handlers)

(* No handler is in the pipeline twice, and all were added. *)
ListOK ==
  /\ IsInjective(Objects(handlers))
  /\ ToSet(Objects(handlers)) \subseteq used

(* Which goroutine fires which event, and where. *)
StagesOK ==
  /\ event["reader"] \in {"none", "connected", "message", "disconnected"}
  /\ event["writer"] \in {"none", "write", "encode"}
  /\ event["reader"] = "connected" => stage["reader"] = "new"
  /\ event["reader"] = "message" => stage["reader"] = "open"
  /\ event["reader"] = "disconnected" => stage["reader"] = "ending"

(* What is present is in the pipeline. *)
PresentOK ==
  \A w \in Walkers : event[w] # "none" => present[w] \subseteq ToSet(Objects(handlers))

(* Who is connected, or is about to be, has OnDisconnected as well. *)
ConnectedOK ==
  /\ \A h \in connected : h \in used /\ "lifecycle" \in Roles[h]
  /\ event["reader"] = "connected" =>
       \A h \in ToSet(todo["reader"]) : h \in used /\ "lifecycle" \in Roles[h]

(* OnDisconnected has reached or will reach everyone who is connected. *)
DisconnectingOK ==
  event["reader"] = "disconnected" =>
    \A h \in connected \cap ToSet(Objects(handlers)) : h \in told \cup ToSet(todo["reader"])

IInv ==
  /\ TypeOK /\ ListOK /\ StagesOK /\ PresentOK /\ ConnectedOK /\ DisconnectingOK
  /\ EventsMissNobody /\ ConnectedAreDisconnected

-----------------------------------------------------------------------------
(* Induction, as the existence of a least counterexample. *)
LessThan == {pair \in Nat \X Nat : pair[1] < pair[2]}

LEMMA LeastNumber ==
  ASSUME NEW S, S \subseteq Nat, S # {}
  PROVE  \E n \in S : \A m \in S : n <= m
<1>1. IsWellFoundedOn(LessThan, Nat)
  BY NatLessThanWellFounded DEF OpToRel, LessThan
<1>2. PICK n \in S : \A m \in S : <<m, n>> \notin LessThan
  BY <1>1, WFMin
<1>3. ASSUME NEW m \in S PROVE n <= m
  <2>1. m < n => <<m, n>> \in LessThan
    BY DEF LessThan
  <2> QED BY <1>2, <2>1
<1> QED BY <1>3

(* The loop of Matching after n handlers, as a function of n. *)
Kept(k, hs, role, n) ==
  IF n = 0 THEN <<>>
  ELSE IF role \in Roles[hs[n]] THEN Append(k[n - 1], hs[n])
  ELSE k[n - 1]
Keeps(k, hs, role, D) == k = [n \in D |-> Kept(k, hs, role, n)]

LEMMA LoopIsDefined ==
  ASSUME NEW hs, NEW role
  PROVE  \A n \in Nat : \E k : Keeps(k, hs, role, 0..n)
<1> DEFINE Bad == {n \in Nat : ~ \E k : Keeps(k, hs, role, 0..n)}
<1> SUFFICES ASSUME Bad # {} PROVE FALSE
  OBVIOUS
<1>1. PICK n \in Bad : \A m \in Bad : n <= m
  BY LeastNumber
<1>2. n # 0
  <2> DEFINE k0 == [m \in 0..0 |-> <<>>]
  <2>1. Keeps(k0, hs, role, 0..0)
    BY DEF Keeps, Kept
  <2> QED BY <2>1
<1>3. PICK k : Keeps(k, hs, role, 0..n - 1)
  <2>1. n - 1 \in Nat /\ n - 1 \notin Bad
    BY <1>1, <1>2
  <2> QED BY <2>1
<1> DEFINE f == [m \in 0..n |-> IF m < n THEN k[m] ELSE Kept(k, hs, role, n)]
<1>4. ASSUME NEW m \in 0..n PROVE f[m] = Kept(f, hs, role, m)
  <2>1. CASE m = n
    BY <1>2, <2>1 DEF Kept
  <2>2. CASE m # n
    <3>1. m \in 0..n - 1 /\ f[m] = k[m] /\ (m # 0 => f[m - 1] = k[m - 1])
      BY <2>2
    <3>2. k[m] = Kept(k, hs, role, m)
      BY <1>3, <3>1 DEF Keeps
    <3> QED BY <3>1, <3>2 DEF Kept
  <2> QED BY <2>1, <2>2
<1>5. Keeps(f, hs, role, 0..n)
  <2> HIDE DEF f
  <2>1. f = [m \in 0..n |-> f[m]]
    BY DEF f
  <2> QED BY <1>4, <2>1 DEF Keeps
<1> QED BY <1>5

(* p is what the first n of hs with the role are, in their order. *)
Selects(p, hs, n, role) ==
  /\ p \in Seq(Handlers)
  /\ \E at \in [1..Len(p) -> 1..n] :
       /\ \A j \in 1..Len(p) : p[j] = hs[at[j]] /\ role \in Roles[hs[at[j]]]
       /\ \A i, j \in 1..Len(p) : i < j => at[i] < at[j]
       /\ \A i \in 1..n : role \in Roles[hs[i]] => \E j \in 1..Len(p) : at[j] = i

LEMMA OneMore ==
  ASSUME NEW hs \in Seq(Handlers), NEW role, NEW n \in 1..Len(hs), NEW p,
         Selects(p, hs, n - 1, role)
  PROVE  Selects(IF role \in Roles[hs[n]] THEN Append(p, hs[n]) ELSE p, hs, n, role)
<1>1. PICK at \in [1..Len(p) -> 1..n - 1] :
        /\ \A j \in 1..Len(p) : p[j] = hs[at[j]] /\ role \in Roles[hs[at[j]]]
        /\ \A i, j \in 1..Len(p) : i < j => at[i] < at[j]
        /\ \A i \in 1..n - 1 : role \in Roles[hs[i]] => \E j \in 1..Len(p) : at[j] = i
  BY DEF Selects
<1>2. p \in Seq(Handlers) /\ hs[n] \in Handlers
  BY DEF Selects
<1>3. CASE role \notin Roles[hs[n]]
  <2>1. at \in [1..Len(p) -> 1..n]
    OBVIOUS
  <2>2. \A i \in 1..n : role \in Roles[hs[i]] => i \in 1..n - 1
    BY <1>3
  <2>3. \A i \in 1..n : role \in Roles[hs[i]] => \E j \in 1..Len(p) : at[j] = i
    BY <1>1, <2>2
  <2>4. Selects(p, hs, n, role)
    BY <1>1, <1>2, <2>1, <2>3 DEF Selects
  <2> QED BY <1>3, <2>4
<1>4. CASE role \in Roles[hs[n]]
  <2> DEFINE q == Append(p, hs[n])
             to == [j \in 1..Len(q) |-> IF j <= Len(p) THEN at[j] ELSE n]
  <2>1. /\ q \in Seq(Handlers) /\ Len(p) \in Nat /\ Len(q) = Len(p) + 1
        /\ \A j \in 1..Len(p) : q[j] = p[j]
        /\ q[Len(q)] = hs[n]
    BY <1>2
  <2>2. to \in [1..Len(q) -> 1..n]
    BY <2>1
  <2>3. ASSUME NEW j \in 1..Len(q)
        PROVE  q[j] = hs[to[j]] /\ role \in Roles[hs[to[j]]]
    BY <1>1, <1>4, <2>1
  <2>4. ASSUME NEW i \in 1..Len(q), NEW j \in 1..Len(q), i < j
        PROVE  to[i] < to[j]
    BY <1>1, <2>1, <2>4, SMTT(20)
  <2>5. ASSUME NEW i \in 1..n, role \in Roles[hs[i]]
        PROVE  \E j \in 1..Len(q) : to[j] = i
    <3>1. CASE i = n
      BY <2>1, <3>1
    <3>2. CASE i # n
      <4>1. PICK j \in 1..Len(p) : at[j] = i
        BY <1>1, <2>5, <3>2
      <4> QED BY <2>1, <4>1
    <3> QED BY <3>1, <3>2
  <2> HIDE DEF to
  <2>6. Selects(q, hs, n, role)
    BY <2>1, <2>2, <2>3, <2>4, <2>5 DEF Selects
  <2> QED BY <1>4, <2>6
<1> QED BY <1>3, <1>4

LEMMA MatchingSelects ==
  ASSUME NEW hs \in Seq(Handlers), NEW role
  PROVE  Selects(Matching(hs, role), hs, Len(hs), role)
<1>1. \E k : Keeps(k, hs, role, 0..Len(hs))
  <2>1. Len(hs) \in Nat
    OBVIOUS
  <2> QED BY <2>1, LoopIsDefined
<1> DEFINE kept == CHOOSE k : Keeps(k, hs, role, 0..Len(hs))
<1>2. Keeps(kept, hs, role, 0..Len(hs))
  BY <1>1
<1>3. Matching(hs, role) = kept[Len(hs)]
  BY DEF Matching, Keeps, Kept
<1> HIDE DEF kept
<1>4. \A n \in 0..Len(hs) : kept[n] = Kept(kept, hs, role, n)
  BY <1>2 DEF Keeps
<1> DEFINE Bad == {n \in 0..Len(hs) : ~ Selects(kept[n], hs, n, role)}
<1>5. ASSUME Bad # {} PROVE FALSE
  <2>1. PICK n \in Bad : \A m \in Bad : n <= m
    <3>1. Bad \subseteq Nat
      OBVIOUS
    <3> HIDE DEF Bad
    <3> QED BY <1>5, <3>1, LeastNumber
  <2>2. n # 0
    <3> DEFINE p == <<>>
               at == [j \in 1..0 |-> j]
    <3>1. kept[0] = <<>>
      BY <1>4 DEF Kept
    <3>2. at \in [1..0 -> 1..0] /\ p \in Seq(Handlers) /\ 1..Len(p) = 1..0 /\ 1..0 = {}
      OBVIOUS
    <3> HIDE DEF p, at
    <3>3. Selects(p, hs, 0, role)
      BY <3>2 DEF Selects
    <3> QED BY <3>1, <3>3 DEF p
  <2>3. n - 1 \in 0..Len(hs) /\ n - 1 \notin Bad
    BY <2>1, <2>2
  <2>4. Selects(kept[n - 1], hs, n - 1, role)
    BY <2>3
  <2>5. kept[n] = IF role \in Roles[hs[n]] THEN Append(kept[n - 1], hs[n]) ELSE kept[n - 1]
    BY <1>4, <2>2 DEF Kept
  <2> QED BY <2>1, <2>2, <2>4, <2>5, OneMore
<1> QED BY <1>3, <1>5

(* What a snapshot takes of a list without duplicates, and in which order. *)
LEMMA MatchingFacts ==
  ASSUME NEW hs \in Seq(Handlers), IsInjective(hs), NEW role, NEW m,
         m = Matching(hs, role)
  PROVE  /\ m \in Seq(Handlers)
         /\ IsInjective(m)
         /\ ToSet(m) = {h \in ToSet(hs) : role \in Roles[h]}
         /\ \A g, h \in ToSet(m) : Before(m, g, h) <=> Before(hs, g, h)
<1>1. Selects(m, hs, Len(hs), role)
  BY MatchingSelects
<1>2. PICK at \in [1..Len(m) -> 1..Len(hs)] :
        /\ \A j \in 1..Len(m) : m[j] = hs[at[j]] /\ role \in Roles[hs[at[j]]]
        /\ \A i, j \in 1..Len(m) : i < j => at[i] < at[j]
        /\ \A i \in 1..Len(hs) : role \in Roles[hs[i]] => \E j \in 1..Len(m) : at[j] = i
  BY <1>1 DEF Selects
<1>3. m \in Seq(Handlers) /\ DOMAIN m = 1..Len(m) /\ DOMAIN hs = 1..Len(hs) /\ Len(m) \in Nat /\ Len(hs) \in Nat
  BY <1>1 DEF Selects
<1>4. \A i, j \in 1..Len(hs) : hs[i] = hs[j] => i = j
  BY <1>3 DEF IsInjective
<1>5. IsInjective(m)
  <2>1. ASSUME NEW i \in 1..Len(m), NEW j \in 1..Len(m), m[i] = m[j]
        PROVE  i = j
    <3>1. at[i] = at[j]
      BY <1>2, <1>4, <2>1, SMTT(20)
    <3>2. ~ (i < j) /\ ~ (j < i)
      BY <1>2, <3>1
    <3> QED BY <1>3, <3>2
  <2> QED BY <1>3, <2>1 DEF IsInjective
<1>6. ToSet(m) = {h \in ToSet(hs) : role \in Roles[h]}
  <2>1. ASSUME NEW h \in ToSet(m) PROVE h \in ToSet(hs) /\ role \in Roles[h]
    BY <1>2, <1>3 DEF ToSet
  <2>2. ASSUME NEW h \in ToSet(hs), role \in Roles[h] PROVE h \in ToSet(m)
    <3>1. PICK i \in 1..Len(hs) : hs[i] = h
      BY <1>3 DEF ToSet
    <3>2. PICK j \in 1..Len(m) : at[j] = i
      BY <1>2, <2>2, <3>1
    <3> QED BY <1>2, <1>3, <3>1, <3>2 DEF ToSet
  <2> QED BY <2>1, <2>2
<1>7. ASSUME NEW g \in ToSet(m), NEW h \in ToSet(m)
      PROVE  Before(m, g, h) <=> Before(hs, g, h)
  <2>1. PICK i \in 1..Len(m) : m[i] = g
    BY <1>3 DEF ToSet
  <2>2. PICK j \in 1..Len(m) : m[j] = h
    BY <1>3 DEF ToSet
  <2>3. Before(m, g, h) <=> i < j
    BY <1>3, <1>5, <2>1, <2>2 DEF Before, IsInjective
  <2>4. Before(hs, g, h) <=> at[i] < at[j]
    <3>1. hs[at[i]] = g /\ hs[at[j]] = h
      BY <1>2, <2>1, <2>2
    <3> QED BY <1>3, <1>4, <3>1 DEF Before
  <2>5. i < j <=> at[i] < at[j]
    <3>1. at[i] \in Nat /\ at[j] \in Nat
      OBVIOUS
    <3>2. j < i => at[j] < at[i]
      BY <1>2
    <3>3. i < j => at[i] < at[j]
      BY <1>2
    <3> QED BY <3>1, <3>2, <3>3
  <2> QED BY <2>3, <2>4, <2>5
<1> QED BY <1>3, <1>5, <1>6, <1>7

LEMMA ReverseFacts ==
  ASSUME NEW s \in Seq(Handlers), NEW r, r = Reverse(s)
  PROVE  /\ r \in Seq(Handlers)
         /\ ToSet(r) = ToSet(s)
         /\ IsInjective(s) => IsInjective(r)
         /\ \A g, h : Before(r, g, h) <=> Before(s, h, g)
<1>1. /\ DOMAIN s = 1..Len(s) /\ DOMAIN r = 1..Len(s) /\ Len(s) \in Nat
      /\ \A i \in 1..Len(s) : r[i] = s[Len(s) - i + 1]
      /\ r \in Seq(Handlers)
  BY DEF Reverse
<1> DEFINE mirror == [i \in 1..Len(s) |-> Len(s) - i + 1]
<1>2. /\ \A i \in 1..Len(s) : mirror[i] \in 1..Len(s)
      /\ \A i \in 1..Len(s) : mirror[mirror[i]] = i
      /\ \A i, j \in 1..Len(s) : i < j <=> mirror[j] < mirror[i]
      /\ \A i \in 1..Len(s) : r[i] = s[mirror[i]]
  BY <1>1
<1> HIDE DEF mirror
<1>3. \A i \in 1..Len(s) : s[i] = r[mirror[i]]
  BY <1>2
<1>4. ToSet(r) = ToSet(s)
  BY <1>1, <1>2, <1>3, SMTT(20) DEF ToSet
<1>5. IsInjective(s) => IsInjective(r)
  BY <1>1, <1>2 DEF IsInjective
<1>6. ASSUME NEW g, NEW h PROVE Before(r, g, h) <=> Before(s, h, g)
  <2>1. ASSUME NEW i \in 1..Len(s), NEW j \in 1..Len(s), i < j, r[i] = g, r[j] = h
        PROVE  Before(s, h, g)
    <3>1. mirror[j] < mirror[i] /\ s[mirror[j]] = h /\ s[mirror[i]] = g
      BY <1>2, <2>1
    <3> QED BY <1>1, <1>2, <3>1 DEF Before
  <2>2. ASSUME NEW i \in 1..Len(s), NEW j \in 1..Len(s), i < j, s[i] = h, s[j] = g
        PROVE  Before(r, g, h)
    <3>1. mirror[j] < mirror[i] /\ r[mirror[j]] = g /\ r[mirror[i]] = h
      BY <1>2, <1>3, <2>2
    <3> QED BY <1>1, <1>2, <3>1 DEF Before
  <2> QED BY <1>1, <2>1, <2>2 DEF Before
<1> QED BY <1>1, <1>4, <1>5, <1>6

LEMMA ObjectsFacts ==
  ASSUME NEW s \in Seq(Entries)
  PROVE  /\ Objects(s) \in Seq(Handlers)
         /\ Len(Objects(s)) = Len(s)
         /\ DOMAIN Objects(s) = 1..Len(s)
         /\ Len(s) \in Nat
         /\ \A i \in 1..Len(s) : Objects(s)[i] = s[i].handler
         /\ ToSet(Objects(s)) \subseteq Handlers
<1>1. ASSUME NEW i \in 1..Len(s) PROVE s[i].handler \in Handlers
  <2>1. s[i] \in Entries
    OBVIOUS
  <2> QED BY <2>1 DEF Entries
<1>2. Objects(s) \in Seq(Handlers)
  BY <1>1 DEF Objects
<1> QED BY <1>1, <1>2 DEF Objects, ToSet

LEMMA SnapshotFacts ==
  ASSUME TypeOK, ListOK, NEW e
  PROVE  /\ Snapshot(e) \in Seq(Handlers)
         /\ IsInjective(Snapshot(e))
         /\ ToSet(Snapshot(e)) = {h \in ToSet(Objects(handlers)) : RoleOf(e) \in Roles[h]}
         /\ \A g, h \in ToSet(Snapshot(e)) :
              Before(Snapshot(e), g, h)
                <=> Before(IF e \in {"write", "encode"} THEN Reverse(Objects(handlers)) ELSE Objects(handlers), g, h)
<1> DEFINE hs == Objects(handlers)
           m == Matching(hs, RoleOf(e))
<1>1. hs \in Seq(Handlers) /\ IsInjective(hs)
  BY ObjectsFacts DEF TypeOK, ListOK
<1>2. Snapshot(e) = IF e \in {"write", "encode"} THEN Reverse(m) ELSE m
  BY DEF Snapshot
<1> HIDE DEF hs
<1>3. /\ m \in Seq(Handlers)
      /\ IsInjective(m)
      /\ ToSet(m) = {h \in ToSet(hs) : RoleOf(e) \in Roles[h]}
      /\ \A g, h \in ToSet(m) : Before(m, g, h) <=> Before(hs, g, h)
  BY <1>1, MatchingFacts
<1> HIDE DEF m
<1>4. /\ Reverse(m) \in Seq(Handlers)
      /\ ToSet(Reverse(m)) = ToSet(m)
      /\ IsInjective(Reverse(m))
      /\ \A g, h : Before(Reverse(m), g, h) <=> Before(m, h, g)
  BY <1>3, ReverseFacts
<1>5. \A g, h : Before(Reverse(hs), g, h) <=> Before(hs, h, g)
  BY <1>1, ReverseFacts
<1>6. CASE e \in {"write", "encode"}
  <2>1. Snapshot(e) = Reverse(m)
    BY <1>2, <1>6
  <2> QED BY <1>3, <1>4, <1>5, <1>6, <2>1 DEF hs
<1>7. CASE e \notin {"write", "encode"}
  <2>1. Snapshot(e) = m
    BY <1>2, <1>7
  <2> QED BY <1>3, <1>7, <2>1 DEF hs
<1> QED BY <1>6, <1>7

-----------------------------------------------------------------------------
(* What no edit disturbs: to holds what from does and handlers of new, each *)
(* once, and what both hold is in the same order.                          *)
KeepsOrder(to, from, new) ==
  /\ IsInjective(to)
  /\ ToSet(to) \subseteq ToSet(from) \cup new
  /\ \A g, h \in ToSet(to) \cap ToSet(from) : Before(to, g, h) <=> Before(from, g, h)

(* An edit is told by the position each handler comes from, 0 if it is new. *)
LEMMA ComesFrom ==
  ASSUME NEW s \in Seq(Handlers), NEW r \in Seq(Handlers), IsInjective(s),
         NEW new, new \cap ToSet(s) = {},
         NEW at \in [1..Len(r) -> 0..Len(s)],
         \A j \in 1..Len(r) : IF at[j] = 0 THEN r[j] \in new ELSE r[j] = s[at[j]],
         \A i, j \in 1..Len(r) : i < j => at[i] # at[j],
         \A i, j \in 1..Len(r) : i < j /\ at[i] # 0 /\ at[j] # 0 => at[i] < at[j]
  PROVE  KeepsOrder(r, s, new)
<1>1. DOMAIN s = 1..Len(s) /\ DOMAIN r = 1..Len(r) /\ Len(s) \in Nat /\ Len(r) \in Nat
  OBVIOUS
<1>2. \A i, j \in 1..Len(s) : s[i] = s[j] => i = j
  BY <1>1 DEF IsInjective
<1>3. \A j \in 1..Len(s) : s[j] \in ToSet(s)
  BY <1>1 DEF ToSet
<1>4. ASSUME NEW i \in 1..Len(r), NEW j \in 1..Len(r), r[i] = r[j] PROVE i = j
  <2>1. at[i] = at[j]
    <3>1. CASE at[i] = 0
      BY <1>3, <1>4, <3>1, SMTT(20)
    <3>2. CASE at[i] # 0
      <4>1. at[j] # 0
        BY <1>3, <1>4, <3>2
      <4> QED BY <1>2, <1>4, <3>2, <4>1, SMTT(20)
    <3> QED BY <3>1, <3>2
  <2> QED BY <1>1, <2>1
<1>5. IsInjective(r)
  BY <1>1, <1>4 DEF IsInjective
<1>6. ToSet(r) \subseteq ToSet(s) \cup new
  BY <1>1, <1>3 DEF ToSet
<1>7. ASSUME NEW g \in ToSet(r) \cap ToSet(s), NEW h \in ToSet(r) \cap ToSet(s)
      PROVE  Before(r, g, h) <=> Before(s, g, h)
  <2>1. PICK i \in 1..Len(r) : r[i] = g
    BY <1>1 DEF ToSet
  <2>2. PICK j \in 1..Len(r) : r[j] = h
    BY <1>1 DEF ToSet
  <2>3. at[i] # 0 /\ at[j] # 0
    BY <2>1, <2>2
  <2>4. Before(r, g, h) <=> i < j
    BY <1>1, <1>4, <2>1, <2>2 DEF Before
  <2>5. Before(s, g, h) <=> at[i] < at[j]
    <3>1. s[at[i]] = g /\ s[at[j]] = h
      BY <2>1, <2>2, <2>3
    <3> QED BY <1>1, <1>2, <2>3, <3>1, SMTT(20) DEF Before
  <2>6. i < j <=> at[i] < at[j]
    <3>1. at[i] \in Nat /\ at[j] \in Nat
      OBVIOUS
    <3>2. i < j => at[i] < at[j]
      BY <2>3
    <3>3. j < i => at[j] < at[i]
      BY <2>3
    <3> QED BY <3>1, <3>2, <3>3
  <2> QED BY <2>4, <2>5, <2>6
<1> QED BY <1>5, <1>6, <1>7 DEF KeepsOrder

LEMMA InsertedKeepsOrder ==
  ASSUME NEW s \in Seq(Entries), NEW r \in Seq(Entries), NEW x \in Entries,
         IsInjective(Objects(s)), x.handler \notin ToSet(Objects(s)),
         NEW i \in 1..Len(s) + 1, Len(r) = Len(s) + 1,
         \A j \in 1..Len(r) : r[j] = IF j < i THEN s[j] ELSE IF j = i THEN x ELSE s[j - 1]
  PROVE  KeepsOrder(Objects(r), Objects(s), {x.handler})
<1> DEFINE at == [j \in 1..Len(r) |-> IF j < i THEN j ELSE IF j = i THEN 0 ELSE j - 1]
           a == Objects(s)
           b == Objects(r)
<1>1. /\ a \in Seq(Handlers) /\ Len(a) = Len(s) /\ Len(s) \in Nat
      /\ \A j \in 1..Len(s) : a[j] = s[j].handler
  BY ObjectsFacts
<1>2. /\ b \in Seq(Handlers) /\ Len(b) = Len(r) /\ Len(r) \in Nat
      /\ \A j \in 1..Len(r) : b[j] = r[j].handler
  BY ObjectsFacts
<1> HIDE DEF a, b
<1>3. at \in [1..Len(b) -> 0..Len(a)]
  BY <1>1, <1>2
<1>4. \A j \in 1..Len(b) : IF at[j] = 0 THEN b[j] \in {x.handler} ELSE b[j] = a[at[j]]
  <2> SUFFICES ASSUME NEW j \in 1..Len(b)
               PROVE  IF at[j] = 0 THEN b[j] \in {x.handler} ELSE b[j] = a[at[j]]
    OBVIOUS
  <2>1. CASE j < i
    BY <1>1, <1>2, <2>1
  <2>2. CASE j = i
    BY <1>1, <1>2, <2>2
  <2>3. CASE j > i
    <3>1. j - 1 \in 1..Len(s) /\ at[j] = j - 1 /\ r[j] = s[j - 1] /\ j - 1 # 0
      BY <1>1, <1>2, <2>3
    <3>2. b[j] = r[j].handler /\ a[j - 1] = s[j - 1].handler
      BY <1>1, <1>2, <3>1
    <3> HIDE DEF at
    <3> QED BY <3>1, <3>2
  <2> QED BY <1>2, <2>1, <2>2, <2>3
<1>5. \A j, k \in 1..Len(b) : j < k => at[j] # at[k]
  BY <1>1, <1>2
<1>6. \A j, k \in 1..Len(b) : j < k /\ at[j] # 0 /\ at[k] # 0 => at[j] < at[k]
  BY <1>1, <1>2
<1>7. IsInjective(a) /\ {x.handler} \cap ToSet(a) = {}
  BY DEF a
<1> HIDE DEF at
<1>8. KeepsOrder(b, a, {x.handler})
  BY <1>1, <1>2, <1>3, <1>4, <1>5, <1>6, <1>7, ComesFrom
<1> QED BY <1>8 DEF a, b

LEMMA ReplacedKeepsOrder ==
  ASSUME NEW s \in Seq(Entries), NEW x \in Entries, NEW i \in 1..Len(s), NEW r,
         IsInjective(Objects(s)), x.handler \notin ToSet(Objects(s)),
         r = ReplaceAt(s, i, x)
  PROVE  /\ r \in Seq(Entries)
         /\ KeepsOrder(Objects(r), Objects(s), {x.handler})
<1> DEFINE at == [j \in 1..Len(s) |-> IF j = i THEN 0 ELSE j]
           a == Objects(s)
           b == Objects(r)
<1>0. r \in Seq(Entries) /\ Len(r) = Len(s) /\ \A j \in 1..Len(s) : r[j] = IF j = i THEN x ELSE s[j]
  BY DEF ReplaceAt
<1>1. /\ a \in Seq(Handlers) /\ Len(a) = Len(s) /\ Len(s) \in Nat
      /\ \A j \in 1..Len(s) : a[j] = s[j].handler
  BY ObjectsFacts
<1>2. /\ b \in Seq(Handlers) /\ Len(b) = Len(s)
      /\ \A j \in 1..Len(s) : b[j] = r[j].handler
  BY <1>0, ObjectsFacts
<1> HIDE DEF a, b
<1>3. at \in [1..Len(b) -> 0..Len(a)]
  BY <1>1, <1>2
<1>4. \A j \in 1..Len(b) : IF at[j] = 0 THEN b[j] \in {x.handler} ELSE b[j] = a[at[j]]
  BY <1>0, <1>1, <1>2
<1>5. /\ \A j, k \in 1..Len(b) : j < k => at[j] # at[k]
      /\ \A j, k \in 1..Len(b) : j < k /\ at[j] # 0 /\ at[k] # 0 => at[j] < at[k]
  BY <1>1, <1>2
<1>6. IsInjective(a) /\ {x.handler} \cap ToSet(a) = {}
  BY DEF a
<1> HIDE DEF at
<1>7. KeepsOrder(b, a, {x.handler})
  BY <1>1, <1>2, <1>3, <1>4, <1>5, <1>6, ComesFrom
<1> QED BY <1>0, <1>7 DEF a, b

LEMMA RemovedKeepsOrder ==
  ASSUME NEW s \in Seq(Entries), NEW i \in 1..Len(s), NEW r,
         IsInjective(Objects(s)), r = RemoveAt(s, i)
  PROVE  /\ r \in Seq(Entries)
         /\ KeepsOrder(Objects(r), Objects(s), {})
<1> DEFINE at == [j \in 1..Len(s) - 1 |-> IF j < i THEN j ELSE j + 1]
           a == Objects(s)
           b == Objects(r)
<1>0. /\ r \in Seq(Entries) /\ Len(r) = Len(s) - 1
      /\ \A j \in 1..Len(s) - 1 : r[j] = s[at[j]]
  <2> DEFINE front == SubSeq(s, 1, i - 1)
             back == SubSeq(s, i + 1, Len(s))
  <2>1. /\ front \in Seq(Entries) /\ Len(front) = i - 1
        /\ \A j \in 1..i - 1 : front[j] = s[j]
    OBVIOUS
  <2>2. /\ back \in Seq(Entries) /\ Len(back) = Len(s) - i
        /\ \A j \in 1..Len(s) - i : back[j] = s[i + j]
    OBVIOUS
  <2>3. r = front \o back
    BY DEF RemoveAt
  <2> HIDE DEF front, back
  <2>4. r \in Seq(Entries) /\ Len(r) = Len(s) - 1
    BY <2>1, <2>2, <2>3, SMTT(20)
  <2>5. ASSUME NEW j \in 1..Len(s) - 1, j < i PROVE r[j] = s[at[j]]
    BY <2>1, <2>2, <2>3, <2>5
  <2>6. ASSUME NEW j \in 1..Len(s) - 1, ~ (j < i) PROVE r[j] = s[at[j]]
    <3>1. j - (i - 1) \in 1..Len(s) - i
      BY <2>6
    <3>2. r[j] = back[j - (i - 1)]
      BY <2>1, <2>2, <2>3, <2>6
    <3>3. back[j - (i - 1)] = s[i + (j - (i - 1))] /\ i + (j - (i - 1)) = j + 1
      BY <2>2, <3>1
    <3> QED BY <2>6, <3>2, <3>3
  <2> QED BY <2>4, <2>5, <2>6
<1>1. /\ a \in Seq(Handlers) /\ Len(a) = Len(s) /\ Len(s) \in Nat
      /\ \A j \in 1..Len(s) : a[j] = s[j].handler
  BY ObjectsFacts
<1>2. /\ b \in Seq(Handlers) /\ Len(b) = Len(s) - 1
      /\ \A j \in 1..Len(s) - 1 : b[j] = r[j].handler
  BY <1>0, ObjectsFacts
<1> HIDE DEF a, b
<1>3. at \in [1..Len(b) -> 1..Len(a)]
  BY <1>1, <1>2
<1>4. \A j \in 1..Len(b) : b[j] = a[at[j]]
  BY <1>0, <1>1, <1>2, <1>3, SMTT(20)
<1>5. \A j, k \in 1..Len(b) : j < k => at[j] < at[k]
  BY <1>1, <1>2
<1>6. IsInjective(a)
  BY DEF a
<1> HIDE DEF at
<1>7. at \in [1..Len(b) -> 0..Len(a)] /\ \A j \in 1..Len(b) : at[j] # 0
  BY <1>1, <1>3
<1>8. \A j, k \in 1..Len(b) : j < k => at[j] # at[k]
  BY <1>1, <1>3, <1>5
<1>9. KeepsOrder(b, a, {})
  BY <1>1, <1>2, <1>4, <1>5, <1>6, <1>7, <1>8, ComesFrom, ZenonT(30)
<1> QED BY <1>0, <1>9 DEF a, b

-----------------------------------------------------------------------------
(* EventsMissNobody, for the event of one goroutine. *)
MissesNobody(w) ==
  /\ IsInjective(Path(w))
  /\ present[w] \subseteq ToSet(Path(w))
  /\ \A g, h \in present[w] : Before(Path(w), g, h) <=> Before(Order(w), g, h)

LEMMA InitIInv == Init => IInv
<1> SUFFICES ASSUME Init PROVE IInv
  OBVIOUS
<1>1. PICK base \in Bases, grouped \in BOOLEAN : handlers = GetPipeline(base, grouped)
  BY DEF Init
<1> DEFINE full == GetPipeline(base, TRUE)
<1>2. base \in Seq(Entries) /\ Logger \in Entries /\ Group \in Entries
  BY PipelineAssumption
<1>3. /\ full \in Seq(Entries) /\ handlers \in Seq(Entries)
      /\ Len(handlers) <= Len(full)
      /\ \A i \in 1..Len(handlers) : handlers[i] = full[i]
  <2>1. CASE grouped
    BY <1>1, <1>2, <2>1 DEF GetPipeline
  <2>2. CASE ~grouped
    <3>1. handlers = (<<Logger>> \o base) \o <<>> /\ full = (<<Logger>> \o base) \o <<Group>>
      BY <1>1, <2>2 DEF GetPipeline
    <3> DEFINE front == <<Logger>> \o base
    <3>2. front \in Seq(Entries)
      BY <1>2
    <3> HIDE DEF front, full
    <3>3. handlers = front /\ full = front \o <<Group>>
      BY <3>1, <3>2 DEF front
    <3> QED BY <1>2, <3>2, <3>3
  <2> QED BY <2>1, <2>2
<1>4. IsInjective(Objects(full))
  BY PipelineAssumption
<1> HIDE DEF full
<1>5. IsInjective(Objects(handlers))
  <2>1. \A i \in 1..Len(handlers) : i \in 1..Len(full) /\ Objects(handlers)[i] = Objects(full)[i]
    BY <1>3, ObjectsFacts
  <2> QED BY <1>3, <1>4, <2>1, ObjectsFacts DEF IsInjective
<1>6. ListOK
  BY <1>5 DEF ListOK, Init
<1>7. TypeOK
  <2>1. Group.handler \in Handlers
    BY <1>2 DEF Entries
  <2>2. used \subseteq Handlers
    BY <1>3, <2>1, ObjectsFacts DEF Init
  <2>3. edits \in 0..MaxEdits
    BY PipelineAssumption DEF Init
  <2>4. <<>> \in Seq(Handlers)
    OBVIOUS
  <2> QED BY <1>3, <2>2, <2>3, <2>4 DEF TypeOK, Init
<1>8. \A w \in Walkers : event[w] = "none"
  BY DEF Init
<1>9. EventsMissNobody /\ PresentOK
  BY <1>8 DEF EventsMissNobody, PresentOK
<1>10. StagesOK /\ ConnectedOK /\ DisconnectingOK /\ ConnectedAreDisconnected
  BY <1>8 DEF Init, Walkers, StagesOK, ConnectedOK, DisconnectingOK, ConnectedAreDisconnected
<1> QED BY <1>6, <1>7, <1>9, <1>10 DEF IInv

LEMMA EditKeepsIInv ==
  ASSUME IInv, NEW to \in Seq(Entries), Edit(to), NEW new, new \subseteq Handlers,
         new \cap used = {}, KeepsOrder(Objects(to), Objects(handlers), new)
  PROVE  IInv'
<1> USE DEF IInv
<1> DEFINE hs == Objects(handlers)
           ht == Objects(to)
<1>1. /\ handlers' = to /\ edits < MaxEdits /\ edits' = edits + 1
      /\ used' = used \cup ToSet(ht)
      /\ present' = [w \in Walkers |-> present[w] \cap ToSet(ht)]
  BY DEF Edit
<1>2. UNCHANGED <<stage, event, todo, seen, connected, told, refused>>
  BY DEF Edit, walk, notices
<1>3. Objects(handlers)' = ht
  BY <1>1 DEF Objects
<1>4. hs \in Seq(Handlers) /\ ht \in Seq(Handlers) /\ ToSet(ht) \subseteq Handlers
  BY ObjectsFacts DEF TypeOK
<1>5. /\ IsInjective(ht)
      /\ ToSet(ht) \subseteq ToSet(hs) \cup new
      /\ \A g, h \in ToSet(ht) \cap ToSet(hs) : Before(ht, g, h) <=> Before(hs, g, h)
  BY DEF KeepsOrder
<1>6. ToSet(hs) \subseteq used
  BY DEF ListOK
<1> HIDE DEF hs, ht
<1>7. TypeOK'
  <2>1. used' \subseteq Handlers /\ edits' \in 0..MaxEdits
    BY <1>1, <1>4, PipelineAssumption DEF TypeOK
  <2>2. present' \in [Walkers -> SUBSET Handlers]
    BY <1>1 DEF TypeOK
  <2> QED BY <1>1, <1>2, <2>1, <2>2 DEF TypeOK
<1>8. ListOK'
  <2>1. IsInjective(ht) /\ ToSet(ht) \subseteq used'
    BY <1>1, <1>5
  <2> QED BY <1>3, <2>1 DEF ListOK, ToSet, IsInjective
<1>9. StagesOK'
  BY <1>2 DEF StagesOK
<1>10. PresentOK'
  <2>1. \A w \in Walkers : event'[w] # "none" => present'[w] \subseteq ToSet(ht)
    BY <1>1
  <2>2. ToSet(Objects(handlers))' = ToSet(ht)
    BY <1>3 DEF ToSet
  <2> QED BY <2>1, <2>2 DEF PresentOK
<1>11. ConnectedOK'
  <2>1. used \subseteq used'
    BY <1>1
  <2>2. ToSet(todo["reader"])' = ToSet(todo["reader"])
    BY <1>2 DEF ToSet
  <2> QED BY <1>2, <2>1, <2>2 DEF ConnectedOK
<1>12. connected \cap ToSet(ht) \subseteq connected \cap ToSet(hs)
  BY <1>5, <1>6 DEF ConnectedOK
<1>13. DisconnectingOK' /\ ConnectedAreDisconnected'
  <2>1. ToSet(todo["reader"])' = ToSet(todo["reader"]) /\ ToSet(Objects(handlers))' = ToSet(ht)
    BY <1>2, <1>3 DEF ToSet
  <2>2. ToSet(hs) = ToSet(Objects(handlers))
    BY DEF hs
  <2> QED BY <1>2, <1>12, <2>1, <2>2 DEF DisconnectingOK, ConnectedAreDisconnected
<1>14. ASSUME NEW w \in Walkers, event'[w] # "none" PROVE MissesNobody(w)'
  <2>1. Path(w)' = Path(w)
    BY <1>2 DEF Path
  <2>2. MissesNobody(w) /\ present[w] \subseteq ToSet(hs)
    BY <1>2, <1>14 DEF EventsMissNobody, MissesNobody, Path, Order, PresentOK, hs
  <2>3. present'[w] = present[w] \cap ToSet(ht)
    BY <1>1
  <2>4. \A g, h \in present'[w] : Before(Order(w)', g, h) <=> Before(Order(w), g, h)
    <3>1. Order(w)' = IF w = "writer" THEN Reverse(ht) ELSE ht
      BY <1>3 DEF Order, Reverse
    <3>2. Order(w) = IF w = "writer" THEN Reverse(hs) ELSE hs
      BY DEF Order, hs
    <3>3. \A g, h : /\ Before(Reverse(ht), g, h) <=> Before(ht, h, g)
                    /\ Before(Reverse(hs), g, h) <=> Before(hs, h, g)
      BY <1>4, ReverseFacts
    <3>4. \A g, h \in present'[w] : Before(ht, g, h) <=> Before(hs, g, h)
      BY <1>5, <2>2, <2>3
    <3> QED BY <3>1, <3>2, <3>3, <3>4
  <2>5. /\ IsInjective(Path(w))
        /\ present'[w] \subseteq ToSet(Path(w))
        /\ \A g, h \in present'[w] : Before(Path(w), g, h) <=> Before(Order(w)', g, h)
    BY <2>2, <2>3, <2>4 DEF MissesNobody
  <2> QED BY <2>1, <2>5 DEF MissesNobody, IsInjective, ToSet, Before
<1>15. EventsMissNobody'
  BY <1>14 DEF EventsMissNobody, MissesNobody, Path, Order
<1> QED BY <1>7, <1>8, <1>9, <1>10, <1>11, <1>13, <1>15

(* InsertAt, element by element. *)
LEMMA InsertAtFacts ==
  ASSUME NEW s \in Seq(Entries), NEW x \in Entries, NEW i \in 1..Len(s) + 1, NEW r,
         r = InsertAt(s, i, x)
  PROVE  /\ r \in Seq(Entries) /\ Len(r) = Len(s) + 1
         /\ \A j \in 1..Len(r) : r[j] = IF j < i THEN s[j] ELSE IF j = i THEN x ELSE s[j - 1]
<1> DEFINE front == SubSeq(s, 1, i - 1)
           back == SubSeq(s, i, Len(s))
<1>1. /\ front \in Seq(Entries) /\ Len(front) = i - 1
      /\ \A j \in 1..i - 1 : front[j] = s[j]
  OBVIOUS
<1>2. /\ back \in Seq(Entries) /\ Len(back) = Len(s) - i + 1
      /\ \A j \in 1..Len(s) - i + 1 : back[j] = s[i + j - 1]
  OBVIOUS
<1>3. r = (front \o <<x>>) \o back
  BY DEF InsertAt
<1> HIDE DEF front, back
<1> DEFINE start == front \o <<x>>
<1>4. /\ start \in Seq(Entries) /\ Len(start) = i
      /\ \A j \in 1..i - 1 : start[j] = s[j]
      /\ start[i] = x
  BY <1>1
<1> HIDE DEF start
<1>5. r = start \o back
  BY <1>3 DEF start
<1>6. r \in Seq(Entries) /\ Len(r) = Len(s) + 1
  <2>0. start \in Seq(Entries) /\ back \in Seq(Entries)
    BY <1>2, <1>4
  <2>1. r \in Seq(Entries) /\ Len(r) = Len(start) + Len(back)
    BY <2>0, <1>5
  <2>2. Len(s) \in Nat /\ i \in Nat
    OBVIOUS
  <2> QED BY <1>2, <1>4, <2>1, <2>2
<1>7. ASSUME NEW j \in 1..i PROVE r[j] = start[j]
  <2>1. j \in 1..Len(start)
    BY <1>4
  <2> QED BY <1>2, <1>4, <1>5, <2>1
<1>8. ASSUME NEW j \in i + 1..Len(s) + 1 PROVE r[j] = s[j - 1]
  <2>1. j - i \in 1..Len(s) - i + 1 /\ i + (j - i) - 1 = j - 1
    OBVIOUS
  <2>2. r[j] = back[j - i]
    BY <1>2, <1>4, <1>5
  <2>3. back[j - i] = s[i + (j - i) - 1]
    BY <1>2, <2>1
  <2> QED BY <2>1, <2>2, <2>3
<1> QED BY <1>4, <1>6, <1>7, <1>8

LEMMA AdditionKeepsIInv ==
  ASSUME IInv, NEW x \in Entries, x.handler \notin used, NEW i \in 1..Len(handlers) + 1,
         NEW r \in Seq(Entries), Edit(r), Len(r) = Len(handlers) + 1,
         \A j \in 1..Len(r) : r[j] = IF j < i THEN handlers[j] ELSE IF j = i THEN x ELSE handlers[j - 1]
  PROVE  IInv'
<1>1. handlers \in Seq(Entries) /\ IsInjective(Objects(handlers)) /\ x.handler \notin ToSet(Objects(handlers))
  BY DEF IInv, TypeOK, ListOK
<1>2. KeepsOrder(Objects(r), Objects(handlers), {x.handler})
  BY <1>1, InsertedKeepsOrder
<1>3. x.handler \in Handlers
  BY DEF Entries
<1> QED BY <1>2, <1>3, EditKeepsIInv

LEMMA EntryFacts ==
  ASSUME NEW n \in Names, NEW h \in Handlers
  PROVE  Entry(n, h) \in Entries /\ Entry(n, h).handler = h
BY DEF Entry, Entries

LEMMA EditingKeepsIInv == IInv /\ Editing => IInv'
<1> SUFFICES ASSUME IInv, Editing PROVE IInv'
  OBVIOUS
<1>1. handlers \in Seq(Entries) /\ Len(handlers) \in Nat /\ DOMAIN handlers = 1..Len(handlers)
  BY DEF IInv, TypeOK
<1>2. PICK n \in Names :
        \/ RemoveNamed(n)
        \/ \E h \in Handlers :
             \/ AddFirst(n, h) \/ AddLast(n, h)
             \/ \E b \in Names : AddBefore(b, n, h) \/ AddAfter(b, n, h) \/ Replace(b, n, h)
  BY DEF Editing
<1>3. CASE RemoveNamed(n)
  <2>1. PICK i \in 1..Len(handlers) : Edit(RemoveAt(handlers, i))
    BY <1>1, <1>3 DEF RemoveNamed, Position
  <2>2. /\ RemoveAt(handlers, i) \in Seq(Entries)
        /\ KeepsOrder(Objects(RemoveAt(handlers, i)), Objects(handlers), {})
    BY <1>1, RemovedKeepsOrder DEF IInv, ListOK
  <2> QED BY <2>1, <2>2, EditKeepsIInv
<1>4. ASSUME NEW h \in Handlers, AddFirst(n, h) PROVE IInv'
  <2> DEFINE r == <<Entry(n, h)>> \o handlers
  <2>1. h \notin used /\ Edit(r)
    BY <1>4 DEF AddFirst, New
  <2>2. Entry(n, h) \in Entries /\ Entry(n, h).handler = h
    BY EntryFacts
  <2>3. /\ r \in Seq(Entries) /\ Len(r) = Len(handlers) + 1
        /\ \A j \in 1..Len(r) : r[j] = IF j < 1 THEN handlers[j] ELSE IF j = 1 THEN Entry(n, h) ELSE handlers[j - 1]
    BY <1>1, <2>2
  <2>4. 1 \in 1..Len(handlers) + 1
    BY <1>1
  <2> HIDE DEF r
  <2> QED BY <2>1, <2>2, <2>3, <2>4, AdditionKeepsIInv
<1>5. ASSUME NEW h \in Handlers, AddLast(n, h) PROVE IInv'
  <2> DEFINE r == Append(handlers, Entry(n, h))
  <2>1. h \notin used /\ Edit(r)
    BY <1>5 DEF AddLast, New
  <2>2. Entry(n, h) \in Entries /\ Entry(n, h).handler = h
    BY EntryFacts
  <2> DEFINE i == Len(handlers) + 1
  <2>3. /\ r \in Seq(Entries) /\ Len(r) = Len(handlers) + 1
        /\ \A j \in 1..Len(r) : r[j] = IF j < i THEN handlers[j] ELSE IF j = i THEN Entry(n, h) ELSE handlers[j - 1]
    BY <1>1, <2>2
  <2>4. i \in 1..Len(handlers) + 1
    BY <1>1
  <2> HIDE DEF r, i
  <2> QED BY <2>1, <2>2, <2>3, <2>4, AdditionKeepsIInv
<1>6. ASSUME NEW h \in Handlers, NEW b \in Names, AddBefore(b, n, h) PROVE IInv'
  <2>1. PICK i \in 1..Len(handlers) : Edit(InsertAt(handlers, i, Entry(n, h)))
    BY <1>1, <1>6 DEF AddBefore, Position
  <2>2. h \notin used /\ i \in 1..Len(handlers) + 1
    BY <1>1, <1>6 DEF AddBefore, New
  <2>3. Entry(n, h) \in Entries /\ Entry(n, h).handler = h
    BY EntryFacts
  <2> DEFINE r == InsertAt(handlers, i, Entry(n, h))
  <2>4. /\ r \in Seq(Entries) /\ Len(r) = Len(handlers) + 1
        /\ \A j \in 1..Len(r) : r[j] = IF j < i THEN handlers[j] ELSE IF j = i THEN Entry(n, h) ELSE handlers[j - 1]
    BY <1>1, <2>2, <2>3, InsertAtFacts
  <2>5. Edit(r)
    BY <2>1
  <2> HIDE DEF r
  <2> QED BY <2>2, <2>3, <2>4, <2>5, AdditionKeepsIInv
<1>7. ASSUME NEW h \in Handlers, NEW b \in Names, AddAfter(b, n, h) PROVE IInv'
  <2>1. PICK i \in 1..Len(handlers) : Edit(InsertAt(handlers, i + 1, Entry(n, h)))
    BY <1>1, <1>7 DEF AddAfter, Position
  <2>2. h \notin used /\ i + 1 \in 1..Len(handlers) + 1
    BY <1>1, <1>7 DEF AddAfter, New
  <2>3. Entry(n, h) \in Entries /\ Entry(n, h).handler = h
    BY EntryFacts
  <2> DEFINE r == InsertAt(handlers, i + 1, Entry(n, h))
  <2>4. /\ r \in Seq(Entries) /\ Len(r) = Len(handlers) + 1
        /\ \A j \in 1..Len(r) : r[j] = IF j < i + 1 THEN handlers[j] ELSE IF j = (i + 1) THEN Entry(n, h) ELSE handlers[j - 1]
    BY <1>1, <2>2, <2>3, InsertAtFacts
  <2>5. Edit(r)
    BY <2>1
  <2> HIDE DEF r
  <2> QED BY <2>2, <2>3, <2>4, <2>5, AdditionKeepsIInv
<1>8. ASSUME NEW h \in Handlers, NEW b \in Names, Replace(b, n, h) PROVE IInv'
  <2>1. PICK i \in 1..Len(handlers) : Edit(ReplaceAt(handlers, i, Entry(n, h)))
    BY <1>1, <1>8 DEF Replace, Position
  <2>2. h \notin used /\ h \notin ToSet(Objects(handlers))
    BY <1>8 DEF Replace, IInv, ListOK
  <2>3. Entry(n, h) \in Entries /\ Entry(n, h).handler = h
    BY EntryFacts
  <2>4. /\ ReplaceAt(handlers, i, Entry(n, h)) \in Seq(Entries)
        /\ KeepsOrder(Objects(ReplaceAt(handlers, i, Entry(n, h))), Objects(handlers), {h})
    BY <1>1, <2>2, <2>3, ReplacedKeepsOrder DEF IInv, ListOK
  <2> QED BY <2>1, <2>2, <2>4, EditKeepsIInv
<1> QED BY <1>2, <1>3, <1>4, <1>5, <1>6, <1>7, <1>8

-----------------------------------------------------------------------------
(* The events, over a pipeline that stays as it is. *)
LEMMA RolesOfEvents ==
  /\ RoleOf("connected") = "lifecycle" /\ RoleOf("disconnected") = "lifecycle"
BY DEF RoleOf

LEMMA FireKeepsIInv ==
  ASSUME IInv, NEW w \in Walkers, NEW at, NEW e, Fire(w, at, e),
         <<w, at, e>> \in {<<"reader", "new", "connected">>, <<"reader", "open", "message">>,
                           <<"reader", "ending", "disconnected">>, <<"writer", "new", "write">>,
                           <<"writer", "open", "encode">>}
  PROVE  IInv'
<1> USE DEF IInv
<1> DEFINE snap == Snapshot(e)
           hs == Objects(handlers)
<1>1. /\ stage[w] = at /\ event[w] = "none"
      /\ event' = [event EXCEPT ![w] = e]
      /\ todo' = [todo EXCEPT ![w] = snap]
      /\ seen' = [seen EXCEPT ![w] = <<>>]
      /\ present' = [present EXCEPT ![w] = ToSet(snap)]
      /\ UNCHANGED <<handlers, edits, used, stage, connected, told, refused>>
  BY DEF Fire, list, notices
<1>2. /\ snap \in Seq(Handlers) /\ IsInjective(snap)
      /\ ToSet(snap) = {h \in ToSet(hs) : RoleOf(e) \in Roles[h]}
      /\ \A g, h \in ToSet(snap) :
           Before(snap, g, h) <=> Before(IF e \in {"write", "encode"} THEN Reverse(hs) ELSE hs, g, h)
  BY SnapshotFacts
<1>3. ToSet(hs) \subseteq Handlers
  BY ObjectsFacts DEF TypeOK
<1>4. /\ e \in {"connected", "message", "disconnected", "write", "encode"}
      /\ e \in {"write", "encode"} <=> w = "writer"
      /\ w = "reader" <=> e \in {"connected", "message", "disconnected"}
      /\ e = "connected" => at = "new"
      /\ e = "message" => at = "open"
      /\ e = "disconnected" => at = "ending"
  BY DEF Walkers
<1> HIDE DEF snap, hs
<1>5. TypeOK'
  <2>1. <<>> \in Seq(Handlers) /\ ToSet(snap) \in SUBSET Handlers
    BY <1>2, <1>3
  <2>2. event' \in [Walkers -> {"none", "connected", "message", "disconnected", "write", "encode"}]
    BY <1>1, <1>4 DEF TypeOK
  <2>3. todo' \in [Walkers -> Seq(Handlers)] /\ seen' \in [Walkers -> Seq(Handlers)]
    BY <1>1, <1>2, <2>1 DEF TypeOK
  <2>4. present' \in [Walkers -> SUBSET Handlers]
    BY <1>1, <2>1 DEF TypeOK
  <2>5. /\ handlers' \in Seq(Entries) /\ edits' \in 0..MaxEdits /\ used' \subseteq Handlers
        /\ stage' \in [Walkers -> {"new", "open", "ending", "closed"}]
        /\ connected' \subseteq Handlers /\ told' \subseteq Handlers
    BY <1>1 DEF TypeOK
  <2>6. refused' \in BOOLEAN
    BY <1>1, Zenon DEF TypeOK
  <2> QED BY <2>2, <2>3, <2>4, <2>5, <2>6 DEF TypeOK
<1>6. Objects(handlers)' = hs
  BY <1>1 DEF Objects, hs
<1>7. ListOK'
  <2>1. IsInjective(hs) /\ ToSet(hs) \subseteq used'
    BY <1>1 DEF ListOK, hs
  <2> QED BY <1>6, <2>1 DEF ListOK, IsInjective, ToSet
<1>8. StagesOK'
  BY <1>1, <1>4 DEF StagesOK, TypeOK, Walkers
<1>9. ToSet(Objects(handlers))' = ToSet(hs)
  BY <1>6 DEF ToSet
<1>10. PresentOK'
  <2>1. ASSUME NEW v \in Walkers, event'[v] # "none" PROVE present'[v] \subseteq ToSet(hs)
    <3>1. CASE v = w
      BY <1>1, <1>2, <3>1 DEF TypeOK
    <3>2. CASE v # w
      BY <1>1, <2>1, <3>2 DEF TypeOK, PresentOK, hs
    <3> QED BY <3>1, <3>2
  <2> QED BY <1>9, <2>1 DEF PresentOK
<1>11. ConnectedOK'
  <2>1. \A h \in connected' : h \in used' /\ "lifecycle" \in Roles[h]
    BY <1>1 DEF ConnectedOK
  <2>2. ASSUME event'["reader"] = "connected", NEW h \in ToSet(todo'["reader"])
        PROVE  h \in used' /\ "lifecycle" \in Roles[h]
    <3>1. CASE w = "reader"
      <4>1. e = "connected" /\ todo'["reader"] = snap
        BY <1>1, <2>2, <3>1 DEF TypeOK
      <4> QED BY <1>1, <1>2, <2>2, <4>1, RolesOfEvents DEF ListOK, hs
    <3>2. CASE w # "reader"
      <4>1. event["reader"] = "connected" /\ todo'["reader"] = todo["reader"]
        BY <1>1, <2>2, <3>2 DEF TypeOK
      <4> QED BY <1>1, <2>2, <4>1 DEF ConnectedOK
    <3> QED BY <3>1, <3>2
  <2>3. ToSet(todo["reader"])' = ToSet(todo'["reader"])
    BY DEF ToSet
  <2> QED BY <2>1, <2>2, <2>3 DEF ConnectedOK
<1>12. DisconnectingOK'
  <2>1. ASSUME event'["reader"] = "disconnected", NEW h \in connected \cap ToSet(hs)
        PROVE  h \in told \cup ToSet(todo'["reader"])
    <3>1. CASE w = "reader"
      <4>1. e = "disconnected" /\ todo'["reader"] = snap
        BY <1>1, <2>1, <3>1 DEF TypeOK
      <4>2. "lifecycle" \in Roles[h]
        BY DEF ConnectedOK
      <4> QED BY <1>2, <4>1, <4>2, RolesOfEvents
    <3>2. CASE w # "reader"
      <4>1. event["reader"] = "disconnected" /\ todo'["reader"] = todo["reader"]
        BY <1>1, <2>1, <3>2 DEF TypeOK
      <4> QED BY <4>1 DEF DisconnectingOK, hs
    <3> QED BY <3>1, <3>2
  <2>2. ToSet(todo["reader"])' = ToSet(todo'["reader"])
    BY DEF ToSet
  <2> QED BY <1>1, <1>9, <2>1, <2>2 DEF DisconnectingOK
<1>13. ConnectedAreDisconnected'
  BY <1>1, <1>9 DEF ConnectedAreDisconnected, hs
<1>14. ASSUME NEW v \in Walkers, event'[v] # "none" PROVE MissesNobody(v)'
  <2> DEFINE order == IF v = "writer" THEN Reverse(hs) ELSE hs
  <2>1. Order(v)' = order
    BY <1>6 DEF Order, Reverse
  <2>2. CASE v = w
    <3>1. Path(v)' = <<>> \o snap /\ present'[v] = ToSet(snap)
      BY <1>1, <2>2 DEF Path, TypeOK
    <3>2. <<>> \o snap = snap
      BY <1>2
    <3>3. /\ IsInjective(snap)
          /\ present'[v] \subseteq ToSet(snap)
          /\ \A g, h \in present'[v] : Before(snap, g, h) <=> Before(order, g, h)
      BY <1>2, <1>4, <2>2, <3>1
    <3>4. Path(v)' = snap
      BY <3>1, <3>2
    <3> HIDE DEF order
    <3> QED BY <2>1, <3>3, <3>4 DEF MissesNobody, IsInjective, ToSet, Before
  <2>3. CASE v # w
    <3>1. /\ event[v] # "none" /\ present'[v] = present[v]
          /\ seen'[v] = seen[v] /\ todo'[v] = todo[v]
      BY <1>1, <1>14, <2>3 DEF TypeOK
    <3>2. MissesNobody(v)
      BY <3>1 DEF EventsMissNobody, MissesNobody, Path, Order
    <3>3. Path(v)' = Path(v)
      BY <3>1 DEF Path
    <3>4. Order(v) = order
      BY DEF Order, hs
    <3> HIDE DEF order
    <3> QED BY <2>1, <3>1, <3>2, <3>3, <3>4 DEF MissesNobody, IsInjective, ToSet, Before
  <2> QED BY <2>2, <2>3
<1>15. EventsMissNobody'
  BY <1>14 DEF EventsMissNobody, MissesNobody, Path, Order
<1> QED BY <1>5, <1>7, <1>8, <1>10, <1>11, <1>12, <1>13, <1>15

(* What a call leaves: the goroutine's path and the pipeline. *)
LEMMA CallFacts ==
  ASSUME TypeOK, NEW w \in Walkers, Call(w)
  PROVE  /\ \A v \in Walkers : Path(v)' = Path(v)
         /\ seen' \in [Walkers -> Seq(Handlers)] /\ todo' \in [Walkers -> Seq(Handlers)]
         /\ Head(todo[w]) \in ToSet(todo[w]) /\ Head(todo[w]) \in Handlers
         /\ ToSet(todo[w]) = ToSet(todo'[w]) \cup {Head(todo[w])}
         /\ \A v \in Walkers \ {w} : todo'[v] = todo[v]
<1> DEFINE s == seen[w]
           t == todo[w]
<1>1. s \in Seq(Handlers) /\ t \in Seq(Handlers) /\ t # <<>>
  BY DEF Call, TypeOK
<1>2. /\ seen' = [seen EXCEPT ![w] = Append(s, Head(t))]
      /\ todo' = [todo EXCEPT ![w] = Tail(t)]
  BY DEF Call
<1>3. seen'[w] = Append(s, Head(t)) /\ todo'[w] = Tail(t)
  BY <1>2 DEF TypeOK
<1>4. \A v \in Walkers \ {w} : seen'[v] = seen[v] /\ todo'[v] = todo[v]
  BY <1>2 DEF TypeOK
<1> HIDE DEF s, t
<1>5. Head(t) \in Handlers /\ Tail(t) \in Seq(Handlers)
  BY <1>1
<1>6. /\ Len(t) >= 1 /\ Head(t) = t[1] /\ Len(Tail(t)) = Len(t) - 1
      /\ \A i \in 1..Len(t) - 1 : Tail(t)[i] = t[i + 1]
  BY <1>1
<1>7. Append(s, Head(t)) \o Tail(t) = s \o t
  <2> DEFINE a == Append(s, Head(t)) \o Tail(t)
             b == s \o t
             n == Len(s) + Len(t)
  <2>1. a \in Seq(Handlers) /\ b \in Seq(Handlers) /\ Len(a) = n /\ Len(b) = n
    BY <1>1, <1>5, <1>6
  <2>2. ASSUME NEW i \in 1..n PROVE a[i] = b[i]
    <3>1. CASE i <= Len(s)
      BY <1>1, <1>5, <1>6, <3>1
    <3>2. CASE i = Len(s) + 1
      BY <1>1, <1>5, <1>6, <3>2
    <3>3. CASE i > Len(s) + 1
      <4>1. i - Len(s) - 1 \in 1..Len(t) - 1 /\ i - Len(s) \in 1..Len(t)
        BY <1>1, <3>3
      <4>2. a[i] = Tail(t)[i - Len(s) - 1]
        BY <1>1, <1>5, <1>6, <3>3
      <4>3. b[i] = t[i - Len(s)]
        BY <1>1, <3>3
      <4>4. Tail(t)[i - Len(s) - 1] = t[(i - Len(s) - 1) + 1] /\ (i - Len(s) - 1) + 1 = i - Len(s)
        BY <1>1, <1>6, <4>1
      <4> QED BY <4>2, <4>3, <4>4
    <3> QED BY <1>1, <3>1, <3>2, <3>3
  <2> HIDE DEF a, b, n
  <2>3. a = b
    BY <2>1, <2>2
  <2> QED BY <2>3 DEF a, b
<1>8. \A v \in Walkers : Path(v)' = Path(v)
  BY <1>3, <1>4, <1>7 DEF Path, s, t
<1>9. Append(s, Head(t)) \in Seq(Handlers)
  BY <1>1, <1>5
<1>10. seen' \in [Walkers -> Seq(Handlers)] /\ todo' \in [Walkers -> Seq(Handlers)]
  BY <1>2, <1>5, <1>9 DEF TypeOK
<1>11. ToSet(t) = ToSet(Tail(t)) \cup {Head(t)} /\ Head(t) \in ToSet(t)
  <2>1. DOMAIN t = 1..Len(t) /\ DOMAIN Tail(t) = 1..Len(t) - 1 /\ Len(t) \in Nat
    BY <1>1, <1>5, <1>6
  <2>2. Head(t) \in ToSet(t)
    BY <1>6, <2>1 DEF ToSet
  <2>3. ToSet(Tail(t)) \subseteq ToSet(t)
    BY <1>6, <2>1 DEF ToSet
  <2>4. ASSUME NEW i \in 1..Len(t) PROVE t[i] \in ToSet(Tail(t)) \cup {Head(t)}
    <3>1. CASE i = 1
      BY <1>6, <3>1
    <3>2. CASE i # 1
      <4>1. i - 1 \in 1..Len(t) - 1 /\ (i - 1) + 1 = i
        BY <2>1, <3>2
      <4>2. Tail(t)[i - 1] = t[i]
        BY <1>6, <4>1
      <4> QED BY <2>1, <4>1, <4>2 DEF ToSet
    <3> QED BY <3>1, <3>2
  <2>5. ToSet(t) \subseteq ToSet(Tail(t)) \cup {Head(t)}
    BY <2>1, <2>4 DEF ToSet
  <2> QED BY <2>2, <2>3, <2>5
<1> QED BY <1>3, <1>4, <1>5, <1>8, <1>10, <1>11 DEF t

LEMMA CallKeepsIInv ==
  ASSUME IInv, NEW w \in Walkers, Call(w)
  PROVE  IInv'
<1> USE DEF IInv
<1> DEFINE h0 == Head(todo[w])
<1>1. /\ event[w] # "none"
      /\ connected' = IF event[w] = "connected" THEN connected \cup {h0} ELSE connected
      /\ told' = IF event[w] = "disconnected" THEN told \cup {h0} ELSE told
      /\ UNCHANGED <<handlers, edits, used, stage, event, present, refused>>
  BY DEF Call, list
<1>2. /\ \A v \in Walkers : Path(v)' = Path(v)
      /\ seen' \in [Walkers -> Seq(Handlers)] /\ todo' \in [Walkers -> Seq(Handlers)]
      /\ h0 \in ToSet(todo[w]) /\ h0 \in Handlers
      /\ ToSet(todo[w]) = ToSet(todo'[w]) \cup {h0}
      /\ \A v \in Walkers \ {w} : todo'[v] = todo[v]
  BY CallFacts
<1> HIDE DEF h0
<1>3. Objects(handlers)' = Objects(handlers) /\ ToSet(Objects(handlers))' = ToSet(Objects(handlers))
  BY <1>1 DEF Objects, ToSet
<1>4. \A v : ToSet(todo[v])' = ToSet(todo'[v])
  BY DEF ToSet
<1>5. event[w] \in {"connected", "message", "disconnected"} => w = "reader"
  BY DEF StagesOK, Walkers
<1>6. TypeOK'
  <2>1. /\ handlers' \in Seq(Entries) /\ edits' \in 0..MaxEdits /\ used' \subseteq Handlers
        /\ stage' \in [Walkers -> {"new", "open", "ending", "closed"}]
        /\ event' \in [Walkers -> {"none", "connected", "message", "disconnected", "write", "encode"}]
        /\ present' \in [Walkers -> SUBSET Handlers]
        /\ connected' \subseteq Handlers /\ told' \subseteq Handlers
    BY <1>1, <1>2 DEF TypeOK
  <2>2. refused' \in BOOLEAN
    BY <1>1, Zenon DEF TypeOK
  <2> QED BY <1>2, <2>1, <2>2 DEF TypeOK
<1>7. ListOK'
  BY <1>1, <1>3 DEF ListOK, IsInjective
<1>8. StagesOK' /\ PresentOK'
  BY <1>1, <1>3 DEF StagesOK, PresentOK
<1>9. ConnectedOK'
  <2>1. ASSUME NEW h \in connected' PROVE h \in used' /\ "lifecycle" \in Roles[h]
    <3>1. CASE h \in connected
      BY <1>1, <3>1 DEF ConnectedOK
    <3>2. CASE h \notin connected
      <4>1. h = h0 /\ event[w] = "connected" /\ w = "reader"
        BY <1>1, <1>5, <2>1, <3>2
      <4> QED BY <1>1, <1>2, <4>1 DEF ConnectedOK
    <3> QED BY <3>1, <3>2
  <2>2. ToSet(todo'["reader"]) \subseteq ToSet(todo["reader"])
    BY <1>2 DEF Walkers
  <2> QED BY <1>1, <1>4, <2>1, <2>2 DEF ConnectedOK
<1>10. DisconnectingOK'
  <2>1. ASSUME event["reader"] = "disconnected", NEW h \in connected' \cap ToSet(Objects(handlers))
        PROVE  h \in told' \cup ToSet(todo'["reader"])
    <3>1. CASE w = "reader"
      <4>1. connected' = connected /\ told' = told \cup {h0}
        BY <1>1, <2>1, <3>1
      <4> QED BY <1>2, <2>1, <3>1, <4>1 DEF DisconnectingOK
    <3>2. CASE w # "reader"
      <4>1. connected' = connected /\ told' = told
        BY <1>1, <1>5, <3>2
      <4>2. todo'["reader"] = todo["reader"]
        BY <1>2, <3>2 DEF Walkers
      <4> QED BY <2>1, <4>1, <4>2 DEF DisconnectingOK
    <3> QED BY <3>1, <3>2
  <2> QED BY <1>1, <1>3, <1>4, <2>1 DEF DisconnectingOK
<1>11. ConnectedAreDisconnected'
  <2>1. ASSUME stage["reader"] = "closed" PROVE connected' = connected
    <3>1. event[w] = "connected" => stage["reader"] = "new"
      BY <1>5 DEF StagesOK
    <3> QED BY <1>1, <2>1, <3>1
  <2>2. told \subseteq told'
    BY <1>1
  <2> QED BY <1>1, <1>3, <2>1, <2>2 DEF ConnectedAreDisconnected
<1>12. ASSUME NEW v \in Walkers, event'[v] # "none" PROVE MissesNobody(v)'
  <2>1. MissesNobody(v)
    BY <1>1, <1>12 DEF EventsMissNobody, MissesNobody, Path, Order
  <2>2. Order(v)' = Order(v) /\ Path(v)' = Path(v)
    BY <1>2, <1>3 DEF Order, Reverse
  <2> QED BY <1>1, <2>1, <2>2 DEF MissesNobody, IsInjective, ToSet, Before
<1>13. EventsMissNobody'
  BY <1>12 DEF EventsMissNobody, MissesNobody, Path, Order
<1> QED BY <1>6, <1>7, <1>8, <1>9, <1>10, <1>11, <1>13

LEMMA ReturnKeepsIInv ==
  ASSUME IInv, NEW w \in Walkers, NEW to \in {"open", "ending", "closed"}, Return(w, to),
         w = "reader" /\ to = "closed" => event[w] = "disconnected" /\ (todo[w] = <<>> \/ refused'),
         told \subseteq told', told' \subseteq Handlers,
         refused' \in BOOLEAN, refused => refused'
  PROVE  IInv'
<1> USE DEF IInv
<1>1. /\ event' = [event EXCEPT ![w] = "none"]
      /\ stage' = [stage EXCEPT ![w] = to]
      /\ todo' = [todo EXCEPT ![w] = <<>>]
      /\ seen' = [seen EXCEPT ![w] = <<>>]
      /\ present' = [present EXCEPT ![w] = {}]
      /\ UNCHANGED <<handlers, edits, used, connected>>
  BY DEF Return, list
<1>2. /\ event'[w] = "none" /\ stage'[w] = to
      /\ \A v \in Walkers \ {w} :
           /\ event'[v] = event[v] /\ stage'[v] = stage[v] /\ present'[v] = present[v]
           /\ seen'[v] = seen[v] /\ todo'[v] = todo[v]
  BY <1>1 DEF TypeOK
<1>3. Objects(handlers)' = Objects(handlers) /\ ToSet(Objects(handlers))' = ToSet(Objects(handlers))
  BY <1>1 DEF Objects, ToSet
<1>4. \A v : ToSet(todo[v])' = ToSet(todo'[v])
  BY DEF ToSet
<1>5. TypeOK'
  <2>1. <<>> \in Seq(Handlers)
    OBVIOUS
  <2>2. /\ handlers' \in Seq(Entries) /\ edits' \in 0..MaxEdits /\ used' \subseteq Handlers
        /\ stage' \in [Walkers -> {"new", "open", "ending", "closed"}]
        /\ event' \in [Walkers -> {"none", "connected", "message", "disconnected", "write", "encode"}]
        /\ present' \in [Walkers -> SUBSET Handlers]
        /\ connected' \subseteq Handlers
    BY <1>1 DEF TypeOK
  <2>3. todo' \in [Walkers -> Seq(Handlers)] /\ seen' \in [Walkers -> Seq(Handlers)]
    BY <1>1, <2>1 DEF TypeOK
  <2> QED BY <2>2, <2>3 DEF TypeOK
<1>6. ListOK'
  BY <1>1, <1>3 DEF ListOK, IsInjective
<1>7. StagesOK'
  <2>1. CASE w = "reader"
    BY <1>2, <2>1 DEF StagesOK, Walkers
  <2>2. CASE w = "writer"
    BY <1>2, <2>2 DEF StagesOK, Walkers
  <2> QED BY <2>1, <2>2 DEF Walkers
<1>8. PresentOK'
  BY <1>2, <1>3 DEF PresentOK
<1>9. ConnectedOK'
  <2>1. event'["reader"] = "connected" => event["reader"] = "connected" /\ todo'["reader"] = todo["reader"]
    BY <1>2 DEF Walkers
  <2> QED BY <1>1, <1>4, <2>1 DEF ConnectedOK
<1>10. DisconnectingOK'
  <2>1. event'["reader"] = "disconnected" => event["reader"] = "disconnected" /\ todo'["reader"] = todo["reader"]
    BY <1>2 DEF Walkers
  <2> QED BY <1>1, <1>3, <1>4, <2>1 DEF DisconnectingOK
<1>11. ConnectedAreDisconnected'
  <2>1. ASSUME stage'["reader"] = "closed", ~ refused', NEW h \in connected \cap ToSet(Objects(handlers))
        PROVE  h \in told'
    <3>1. CASE w = "reader"
      <4>1. event["reader"] = "disconnected" /\ todo["reader"] = <<>>
        BY <1>2, <2>1, <3>1
      <4>2. ToSet(todo["reader"]) = {}
        BY <4>1 DEF ToSet
      <4> QED BY <4>1, <4>2 DEF DisconnectingOK
    <3>2. CASE w # "reader"
      <4>1. stage["reader"] = "closed"
        BY <1>2, <2>1, <3>2 DEF Walkers
      <4> QED BY <2>1, <4>1 DEF ConnectedAreDisconnected
    <3> QED BY <3>1, <3>2
  <2> QED BY <1>1, <1>3, <2>1 DEF ConnectedAreDisconnected
<1>12. ASSUME NEW v \in Walkers, event'[v] # "none" PROVE MissesNobody(v)'
  <2>1. v # w /\ event[v] # "none"
    BY <1>2, <1>12
  <2>2. MissesNobody(v)
    BY <2>1 DEF EventsMissNobody, MissesNobody, Path, Order
  <2>3. Order(v)' = Order(v) /\ Path(v)' = Path(v) /\ present'[v] = present[v]
    BY <1>2, <1>3, <2>1 DEF Order, Path, Reverse
  <2> QED BY <2>2, <2>3 DEF MissesNobody, IsInjective, ToSet, Before
<1>13. EventsMissNobody'
  BY <1>12 DEF EventsMissNobody, MissesNobody, Path, Order
<1> QED BY <1>5, <1>6, <1>7, <1>8, <1>9, <1>10, <1>11, <1>13

LEMMA NobodyElseMissed ==
  ASSUME EventsMissNobody, UNCHANGED <<handlers, event, todo, seen, present>>
  PROVE  EventsMissNobody'
<1>1. ASSUME NEW v \in Walkers, event'[v] # "none" PROVE MissesNobody(v)'
  <2>1. MissesNobody(v)
    BY <1>1 DEF EventsMissNobody, MissesNobody, Path, Order
  <2>2. Order(v)' = Order(v) /\ Path(v)' = Path(v) /\ present'[v] = present[v]
    BY DEF Order, Path, Reverse, Objects
  <2> QED BY <2>1, <2>2 DEF MissesNobody, IsInjective, ToSet, Before
<1> QED BY <1>1 DEF EventsMissNobody, MissesNobody, Path, Order

LEMMA ReadEndsKeepsIInv == IInv /\ ReadEnds => IInv'
<1> SUFFICES ASSUME IInv, ReadEnds PROVE IInv'
  OBVIOUS
<1> USE DEF IInv
<1>1. /\ event["reader"] = "none"
      /\ stage' = [stage EXCEPT !["reader"] = "ending"]
      /\ UNCHANGED <<handlers, edits, used, event, todo, seen, present, connected, told, refused>>
  BY DEF ReadEnds, list, notices
<1>2. TypeOK'
  BY <1>1 DEF TypeOK
<1>3. ListOK' /\ PresentOK' /\ ConnectedOK' /\ DisconnectingOK'
  BY <1>1 DEF ListOK, PresentOK, ConnectedOK, DisconnectingOK, Objects, IsInjective, ToSet
<1>4. StagesOK' /\ stage'["reader"] # "closed"
  BY <1>1 DEF StagesOK, TypeOK, Walkers
<1>5. ConnectedAreDisconnected'
  BY <1>4 DEF ConnectedAreDisconnected
<1>6. EventsMissNobody'
  BY <1>1, NobodyElseMissed
<1> QED BY <1>2, <1>3, <1>4, <1>5, <1>6

LEMMA FiringKeepsIInv == IInv /\ Firing => IInv'
<1> SUFFICES ASSUME IInv, Firing PROVE IInv'
  OBVIOUS
<1>1. CASE FireConnected
  BY <1>1, FireKeepsIInv DEF FireConnected, Walkers
<1>2. CASE FireMessage
  BY <1>2, FireKeepsIInv DEF FireMessage, Walkers
<1>3. CASE FireDisconnected
  BY <1>3, FireKeepsIInv DEF FireDisconnected, Walkers
<1>4. CASE FireWrite
  BY <1>4, FireKeepsIInv DEF FireWrite, Walkers
<1>5. CASE FireEncode
  BY <1>5, FireKeepsIInv DEF FireEncode, Walkers
<1>6. ASSUME NEW w \in Walkers, Passed(w) PROVE IInv'
  <2> DEFINE to == IF event[w] = "disconnected" \/ event[w] = "encode" THEN "closed"
                   ELSE IF event[w] = "write" /\ todo[w] # <<>> THEN "closed" ELSE "open"
  <2>1. Return(w, to) /\ told' = told /\ refused' = refused /\ to \in {"open", "ending", "closed"}
    BY <1>6 DEF Passed
  <2>2. w = "reader" /\ to = "closed" => event[w] = "disconnected" /\ todo[w] = <<>>
    BY <1>6 DEF Passed, IInv, StagesOK
  <2>3. refused' \in BOOLEAN
    BY <2>1, Zenon DEF IInv, TypeOK
  <2>4. told' \subseteq Handlers
    BY <2>1 DEF IInv, TypeOK
  <2> HIDE DEF to
  <2> QED BY <2>1, <2>2, <2>3, <2>4, ReturnKeepsIInv
<1>7. ASSUME NEW w \in Walkers, Fails(w) PROVE IInv'
  <2> DEFINE to == IF event[w] \in {"connected", "message"} THEN "ending" ELSE "closed"
  <2>1. /\ Return(w, to) /\ to \in {"open", "ending", "closed"} /\ event[w] # "none" /\ todo[w] # <<>>
        /\ told' = IF event[w] = "disconnected" THEN told \cup {Head(todo[w])} ELSE told
    BY <1>7 DEF Fails, Return
  <2>2. refused' = (refused \/ event[w] = "disconnected")
    BY <1>7, Zenon DEF Fails
  <2>3. w = "reader" /\ to = "closed" => event[w] = "disconnected"
    BY <2>1 DEF IInv, StagesOK
  <2>4. /\ refused' \in BOOLEAN
        /\ refused => refused'
        /\ event[w] = "disconnected" => refused'
    BY <2>2, Zenon
  <2>5. told' \subseteq Handlers
    <3>1. todo[w] \in Seq(Handlers) /\ told \subseteq Handlers
      BY DEF IInv, TypeOK
    <3>2. Head(todo[w]) \in Handlers
      BY <2>1, <3>1
    <3> QED BY <2>1, <3>1, <3>2
  <2>6. told \subseteq told'
    BY <2>1
  <2> HIDE DEF to
  <2> QED BY <2>1, <2>3, <2>4, <2>5, <2>6, ReturnKeepsIInv
<1>8. ASSUME NEW w \in Walkers, Call(w) PROVE IInv'
  BY <1>8, CallKeepsIInv
<1> QED BY <1>1, <1>2, <1>3, <1>4, <1>5, <1>6, <1>7, <1>8, ReadEndsKeepsIInv DEF Firing

LEMMA NextKeepsIInv == IInv /\ [Next]_vars => IInv'
<1> SUFFICES ASSUME IInv, [Next]_vars PROVE IInv'
  OBVIOUS
<1>1. CASE UNCHANGED vars
  <2>1. UNCHANGED <<handlers, edits, used, stage, event, todo, seen, present, connected, told, refused>>
    BY <1>1 DEF vars, list, walk, notices
  <2>2. TypeOK'
    BY <2>1 DEF IInv, TypeOK
  <2>3. ListOK' /\ StagesOK' /\ PresentOK' /\ ConnectedOK' /\ DisconnectingOK'
    BY <2>1 DEF IInv, ListOK, StagesOK, PresentOK, ConnectedOK, DisconnectingOK, Objects, IsInjective, ToSet
  <2>4. EventsMissNobody'
    BY <2>1, NobodyElseMissed DEF IInv
  <2>5. ConnectedAreDisconnected'
    BY <2>1 DEF IInv, ConnectedAreDisconnected, Objects, ToSet
  <2> QED BY <2>2, <2>3, <2>4, <2>5 DEF IInv
<1> QED BY <1>1, EditingKeepsIInv, FiringKeepsIInv DEF Next

LEMMA SpecIInv == Spec => []IInv
<1> QED BY InitIInv, NextKeepsIInv, PTL DEF Spec

(* The ranges of the list and of what each goroutine walks through. *)
THEOREM TypeCorrect == Spec => []TypeOK
<1>1. IInv => TypeOK
  BY DEF IInv
<1> QED BY <1>1, SpecIInv, PTL

(* However the pipeline is edited under it, an event calls each handler    *)
(* that stays, once and in the order of the pipeline.                      *)
THEOREM EventsReachWhoStays == Spec => []EventsMissNobody
<1>1. IInv => EventsMissNobody
  BY DEF IInv
<1> QED BY <1>1, SpecIInv, PTL

(* Whatever fails and whatever is edited in between, a handler that was    *)
(* connected and stays in the pipeline is disconnected in the end, unless  *)
(* an OnDisconnected fails.                                                *)
THEOREM ConnectedHearOfTheEnd == Spec => []ConnectedAreDisconnected
<1>1. IInv => ConnectedAreDisconnected
  BY DEF IInv
<1> QED BY <1>1, SpecIInv, PTL
============================================================================
