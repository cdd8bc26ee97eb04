-------------------------- MODULE WatchPoolProofs --------------------------
(* The watchpoint pool is correct for every size, by the invariant IInv,   *)
(* and implements the bounded set of numbered watchpoints.                 *)
EXTENDS WatchPool, FiniteSetTheorems, TLAPS

(* The order of the nodes after the first free one was moved to head. *)
Pushed(o, k) ==
  [i \in 1 .. NR_WP |-> IF i = 1 THEN o[k + 1] ELSE IF i <= k + 1 THEN o[i - 1] ELSE o[i]]

(* The order after the i-th node was moved to free_. *)
Dropped(o, k, i) ==
  [j \in 1 .. NR_WP |-> IF i <= j /\ j < k THEN o[j + 1] ELSE IF j = k THEN o[i] ELSE o[j]]

(* What it is to be an order of the nodes, without the library's names. *)
LEMMA OrderFacts ==
  \A p : p \in Orders <=>
          /\ p \in [1 .. NR_WP -> Slots]
          /\ \A a, b \in 1 .. NR_WP : p[a] = p[b] => a = b
          /\ \A s \in Slots : \E a \in 1 .. NR_WP : p[a] = s
<1>1. \A p \in [1 .. NR_WP -> Slots] : DOMAIN p = 1 .. NR_WP
  OBVIOUS
<1>2. QED
  BY <1>1, Zenon DEF Orders, Bijection, Injection, Surjection, IsInjective

(* Moving one node keeps an order of the nodes an order of the nodes. *)
LEMMA PushedOrder ==
  ASSUME NEW o \in Orders, NEW k \in 0 .. NR_WP, k < NR_WP
  PROVE  Pushed(o, k) \in Orders
<1> USE PoolAssumption DEF Slots
<1> DEFINE p == Pushed(o, k)
<1>0. /\ o \in [1 .. NR_WP -> Slots]
      /\ \A a, b \in 1 .. NR_WP : o[a] = o[b] => a = b
      /\ \A s \in Slots : \E a \in 1 .. NR_WP : o[a] = s
  BY OrderFacts, Zenon
<1>1. p \in [1 .. NR_WP -> Slots]
  BY <1>0 DEF Pushed
<1>2. ASSUME NEW a \in 1 .. NR_WP, NEW b \in 1 .. NR_WP, p[a] = p[b]
      PROVE  a = b
  <2> DEFINE From(j) == IF j = 1 THEN k + 1 ELSE IF j <= k + 1 THEN j - 1 ELSE j
  <2>1. \A j \in 1 .. NR_WP : From(j) \in 1 .. NR_WP /\ p[j] = o[From(j)]
    BY DEF Pushed
  <2>2. From(a) = From(b)
    <3> HIDE DEF From, p
    <3> QED BY <1>2, <1>0, <2>1
  <2>3. QED BY <2>2
<1>3. ASSUME NEW s \in Slots PROVE \E a \in 1 .. NR_WP : p[a] = s
  <2>1. PICK b \in 1 .. NR_WP : o[b] = s
    BY <1>0
  <2>2. CASE b = k + 1
    <3>1. p[1] = s
      BY <2>1, <2>2 DEF Pushed
    <3>2. QED BY <3>1
  <2>3. CASE b < k + 1
    <3>1. p[b + 1] = s /\ b + 1 \in 1 .. NR_WP
      BY <2>1, <2>3 DEF Pushed
    <3>2. QED BY <3>1
  <2>4. CASE b > k + 1
    <3>1. p[b] = s
      BY <2>1, <2>4 DEF Pushed
    <3>2. QED BY <3>1
  <2>5. QED BY <2>2, <2>3, <2>4
<1>4. QED
  BY <1>1, <1>2, <1>3, OrderFacts, Zenon

LEMMA DroppedOrder ==
  ASSUME NEW o \in Orders, NEW k \in 0 .. NR_WP, NEW i \in 1 .. k
  PROVE  Dropped(o, k, i) \in Orders
<1> USE PoolAssumption DEF Slots
<1> DEFINE p == Dropped(o, k, i)
<1>0. /\ o \in [1 .. NR_WP -> Slots]
      /\ \A a, b \in 1 .. NR_WP : o[a] = o[b] => a = b
      /\ \A s \in Slots : \E a \in 1 .. NR_WP : o[a] = s
  BY OrderFacts, Zenon
<1>1. p \in [1 .. NR_WP -> Slots]
  BY <1>0 DEF Dropped
<1>2. ASSUME NEW a \in 1 .. NR_WP, NEW b \in 1 .. NR_WP, p[a] = p[b]
      PROVE  a = b
  <2> DEFINE From(j) == IF i <= j /\ j < k THEN j + 1 ELSE IF j = k THEN i ELSE j
  <2>1. \A j \in 1 .. NR_WP : From(j) \in 1 .. NR_WP /\ p[j] = o[From(j)]
    BY DEF Dropped
  <2>2. From(a) = From(b)
    <3> HIDE DEF From, p
    <3> QED BY <1>2, <1>0, <2>1
  <2>3. QED BY <2>2
<1>3. ASSUME NEW s \in Slots PROVE \E a \in 1 .. NR_WP : p[a] = s
  <2>1. PICK b \in 1 .. NR_WP : o[b] = s
    BY <1>0
  <2>2. CASE b = i
    <3>1. p[k] = s /\ k \in 1 .. NR_WP
      BY <2>1, <2>2 DEF Dropped
    <3>2. QED BY <3>1
  <2>3. CASE i < b /\ b <= k
    <3>1. p[b - 1] = s /\ b - 1 \in 1 .. NR_WP
      BY <2>1, <2>3 DEF Dropped
    <3>2. QED BY <3>1
  <2>4. CASE b < i \/ b > k
    <3>1. p[b] = s
      BY <2>1, <2>4 DEF Dropped
    <3>2. QED BY <3>1
  <2>5. QED BY <2>2, <2>3, <2>4
<1>4. QED
  BY <1>1, <1>2, <1>3, OrderFacts, Zenon

(***************************************************************************)
(* The initial pool: all nodes spare, in the order of the array.           *)
(***************************************************************************)
LEMMA InitIInv == Init => IInv
<1> SUFFICES ASSUME Init PROVE IInv
  OBVIOUS
<1> USE PoolAssumption DEF Slots, Cells, Init, init_wp_pool
<1> DEFINE o == [i \in 1 .. NR_WP |-> i - 1]
<1>1. o \in Orders
  <2>1. o \in [1 .. NR_WP -> Slots]
    OBVIOUS
  <2>2. \A a, b \in 1 .. NR_WP : o[a] = o[b] => a = b
    OBVIOUS
  <2>3. ASSUME NEW s \in Slots PROVE \E a \in 1 .. NR_WP : o[a] = s
    <3>1. s + 1 \in 1 .. NR_WP /\ o[s + 1] = s
      OBVIOUS
    <3>2. QED BY <3>1
  <2>4. QED BY <2>1, <2>2, <2>3, OrderFacts, Zenon
<1>2. TypeOK
  BY DEF TypeOK
<1>3. ListsOK(o, 0)
  <2>1. link[HEAD] = NULL /\ link[FREE] = o[1]
    OBVIOUS
  <2>2. \A i \in 1 .. NR_WP : link[i - 1] = IF i = NR_WP THEN NULL ELSE i
    OBVIOUS
  <2>3. QED BY <2>1, <2>2 DEF ListsOK, Follows
<1>4. HeapOK(o, 0) /\ NumbersOK(o, 0) /\ WalkOK(o, 0)
  BY DEF HeapOK, NumbersOK, WalkOK
<1>5. QED
  BY <1>1, <1>2, <1>3, <1>4 DEF IInv

(***************************************************************************)
(* w: the first spare node becomes the first in use.                       *)
(***************************************************************************)
LEMMA cmd_wIInv ==
  ASSUME IInv, NEW e \in Exprs, cmd_w(e)
  PROVE  IInv'
<1> USE PoolAssumption DEF Cells, cmd_w, element_exchange, fill_wp, Prompt, walk
<1>t. TypeOK
  BY DEF IInv
<1>1. PICK o \in Orders, k \in 0 .. NR_WP :
        ListsOK(o, k) /\ HeapOK(o, k) /\ NumbersOK(o, k) /\ WalkOK(o, k)
  BY DEF IInv
<1>o. /\ o \in [1 .. NR_WP -> Slots]
      /\ \A a, b \in 1 .. NR_WP : o[a] = o[b] => a = b
  BY OrderFacts, Zenon
<1>2. k < NR_WP /\ link[FREE] = o[k + 1]
  BY <1>1 DEF ListsOK
<1>3. PICK p \in Orders : p = Pushed(o, k)
  BY <1>2, PushedOrder
<1>t0. PICK t : t = link[FREE]
  OBVIOUS
<1>p. /\ p[1] = t
      /\ t = o[k + 1]
      /\ \A i \in 2 .. k + 1 : p[i] = o[i - 1]
      /\ \A i \in k + 2 .. NR_WP : p[i] = o[i]
  BY <1>2, <1>3, <1>t0 DEF Pushed
<1>d. t \in Slots /\ t # HEAD /\ t # FREE
  BY <1>2, <1>t0, <1>o DEF Slots
<1>l. /\ link'[FREE] = link[t]
      /\ link'[t] = link[HEAD]
      /\ link'[HEAD] = t
      /\ \A c \in Slots : c # t => link'[c] = link[c]
  BY <1>d, <1>t0, <1>t DEF TypeOK
<1>4. TypeOK'
  BY <1>t, <1>d DEF TypeOK
<1>5. ListsOK(p, k + 1)'
  <2>1. link'[FREE] = IF k + 1 = NR_WP THEN NULL ELSE p[k + 2]
    BY <1>1, <1>2, <1>l, <1>p DEF ListsOK, Follows
  <2>2. link'[p[1]] = IF 1 = k + 1 THEN NULL ELSE p[2]
    <3>1. link'[p[1]] = IF k = 0 THEN NULL ELSE o[1]
      BY <1>1, <1>l, <1>p DEF ListsOK
    <3>2. k # 0 => p[2] = o[1]
      BY <1>p
    <3>3. QED BY <3>1, <3>2
  <2>3. ASSUME NEW i \in 2 .. k + 1 PROVE link'[p[i]] = IF i = k + 1 THEN NULL ELSE p[i + 1]
    <3>1. p[i] = o[i - 1] /\ o[i - 1] \in Slots /\ o[i - 1] # t
      BY <1>p, <1>o, <1>2
    <3>2. link'[p[i]] = link[o[i - 1]]
      BY <3>1, <1>l
    <3>3. link[o[i - 1]] = IF i - 1 = k THEN NULL ELSE o[i]
      BY <1>1 DEF ListsOK, Follows
    <3>4. QED BY <3>2, <3>3, <1>p
  <2>4. ASSUME NEW i \in (k + 1) + 1 .. NR_WP PROVE link'[p[i]] = IF i = NR_WP THEN NULL ELSE p[i + 1]
    <3>1. p[i] = o[i] /\ o[i] \in Slots /\ o[i] # t
      BY <1>p, <1>o, <1>2
    <3>2. link'[p[i]] = link[o[i]]
      BY <3>1, <1>l
    <3>3. link[o[i]] = IF i = NR_WP THEN NULL ELSE o[i + 1]
      BY <1>1 DEF ListsOK, Follows
    <3>4. QED BY <3>2, <3>3, <1>p
  <2>5. \A i \in 1 .. k + 1 : link'[p[i]] = IF i = k + 1 THEN NULL ELSE p[i + 1]
    <3> SUFFICES ASSUME NEW i \in 1 .. k + 1
                 PROVE  link'[p[i]] = IF i = k + 1 THEN NULL ELSE p[i + 1]
      OBVIOUS
    <3>1. CASE i = 1
      BY <3>1, <2>2
    <3>2. CASE i \in 2 .. k + 1
      BY <3>2, <2>3
    <3>3. QED BY <3>1, <3>2
  <2>6. link'[HEAD] = IF k + 1 = 0 THEN NULL ELSE p[1]
    BY <1>l, <1>p
  <2>7. \A i \in (k + 1) + 1 .. NR_WP : link'[p[i]] = IF i = NR_WP THEN NULL ELSE p[i + 1]
    BY <2>4, Zenon
  <2>8. link'[FREE] = IF k + 1 = NR_WP THEN NULL ELSE p[(k + 1) + 1]
    BY <2>1
  <2>9. QED BY <2>5, <2>6, <2>7, <2>8, Zenon DEF ListsOK, Follows
<1>6. HeapOK(p, k + 1)'
  <2>1. ASSUME NEW i \in 1 .. k + 1 PROVE p[i] \in heap' /\ what'[p[i]] \in Exprs
    <3>1. CASE i = 1
      BY <3>1, <1>t0, <1>p, <1>d, <1>t DEF TypeOK
    <3>2. CASE i \in 2 .. k + 1
      <4>1. p[i] = o[i - 1] /\ o[i - 1] \in Slots /\ o[i - 1] # t
        BY <3>2, <1>p, <1>o, <1>2
      <4>2. o[i - 1] \in heap /\ what[o[i - 1]] \in Exprs
        BY <3>2, <1>1 DEF HeapOK
      <4>3. QED BY <4>1, <4>2, <1>t0, <1>t DEF TypeOK
    <3>3. QED BY <3>1, <3>2
  <2>2. ASSUME NEW i \in k + 2 .. NR_WP PROVE p[i] \notin heap'
    BY <1>1, <1>t0, <1>p, <1>o, <1>2 DEF HeapOK
  <2>3. QED BY <2>1, <2>2 DEF HeapOK
<1>7. NumbersOK(p, k + 1)'
  <2>1. NO'[p[1]] = seq
    BY <1>p, <1>d, <1>t0, <1>t DEF TypeOK
  <2>2. \A i \in 2 .. k + 1 : NO'[p[i]] = NO[o[i - 1]] /\ NO[o[i - 1]] < seq
    <3> SUFFICES ASSUME NEW i \in 2 .. k + 1 PROVE NO'[p[i]] = NO[o[i - 1]] /\ NO[o[i - 1]] < seq
      OBVIOUS
    <3>1. i - 1 \in 1 .. k /\ p[i] = o[i - 1] /\ o[i - 1] \in Slots /\ o[i - 1] # t
      BY <1>p, <1>o, <1>2
    <3>2. NO[o[i - 1]] < seq
      BY <3>1, <1>1 DEF NumbersOK
    <3>3. NO'[o[i - 1]] = NO[o[i - 1]]
      BY <3>1, <1>t0, <1>t DEF TypeOK
    <3>4. QED BY <3>1, <3>2, <3>3
  <2>3. \A i \in 1 .. k : NO[o[i]] \in Nat
    BY <1>o, <1>t DEF TypeOK
  <2>4. \A i \in 1 .. k + 1 : NO'[p[i]] < seq'
    BY <2>1, <2>2, <2>3, <1>t DEF TypeOK
  <2>5. ASSUME NEW i \in 1 .. k + 1, NEW j \in 1 .. k + 1, i < j
        PROVE  NO'[p[i]] > NO'[p[j]]
    <3>1. CASE i = 1
      BY <2>1, <2>2, <2>3, <2>5, <3>1, <1>t DEF TypeOK
    <3>2. CASE i > 1
      <4>1. i - 1 \in 1 .. k /\ j - 1 \in 1 .. k /\ i - 1 < j - 1
        BY <2>5, <3>2
      <4>2. NO[o[i - 1]] > NO[o[j - 1]]
        BY <4>1, <1>1 DEF NumbersOK
      <4>3. QED BY <4>1, <4>2, <2>2, <2>5, <3>2
    <3>3. QED BY <3>1, <3>2
  <2>6. QED BY <2>4, <2>5 DEF NumbersOK
<1>8. WalkOK(p, k + 1)'
  BY DEF WalkOK
<1>9. QED
  BY <1>2, <1>4, <1>5, <1>6, <1>7, <1>8 DEF IInv

(***************************************************************************)
(* d reaching its watchpoint: the node leaves the middle of the list at    *)
(* head and becomes the first spare one.                                   *)
(***************************************************************************)
LEMMA free_wp_hitIInv ==
  ASSUME IInv, free_wp_hit
  PROVE  IInv'
<1> USE PoolAssumption
        DEF Cells, free_wp_hit, free_what, element_exchange, free_wp_return
<1>t. TypeOK
  BY DEF IInv
<1>1. PICK o \in Orders, k \in 0 .. NR_WP :
        ListsOK(o, k) /\ HeapOK(o, k) /\ NumbersOK(o, k) /\ WalkOK(o, k)
  BY DEF IInv
<1>o. /\ o \in [1 .. NR_WP -> Slots]
      /\ \A a, b \in 1 .. NR_WP : o[a] = o[b] => a = b
  BY OrderFacts, Zenon
<1>2. PICK i \in 1 .. k :
        /\ front = IF i = 1 THEN HEAD ELSE o[i - 1]
        /\ current = o[i]
  <2>1. PICK i \in 1 .. k + 1 :
          /\ front = IF i = 1 THEN HEAD ELSE o[i - 1]
          /\ current = IF i = k + 1 THEN NULL ELSE o[i]
    BY <1>1 DEF WalkOK
  <2>2. i # k + 1
    BY <2>1
  <2>3. QED BY <2>1, <2>2
<1>f. /\ current \in Slots /\ current # HEAD /\ current # FREE
      /\ front # current /\ front # FREE /\ front \in Cells
      /\ \A j \in 1 .. NR_WP : o[j] \in Slots /\ (o[j] = current <=> j = i)
      /\ \A j \in 1 .. NR_WP : o[j] = front <=> (i > 1 /\ j = i - 1)
  BY <1>2, <1>o DEF Slots
<1>h. link[front] = current
  <2>1. CASE i = 1
    BY <1>1, <1>2, <2>1 DEF ListsOK
  <2>2. CASE i > 1
    <3>1. i - 1 \in 1 .. k /\ front = o[i - 1]
      BY <1>2, <2>2
    <3>2. link[o[i - 1]] = IF i - 1 = k THEN NULL ELSE o[(i - 1) + 1]
      BY <1>1, <3>1 DEF ListsOK, Follows
    <3>3. QED BY <3>1, <3>2, <1>2
  <2>3. QED BY <2>1, <2>2
<1>3. PICK p \in Orders : p = Dropped(o, k, i)
  BY DroppedOrder
<1>p. /\ \A j \in 1 .. i - 1 : p[j] = o[j]
      /\ \A j \in i .. k - 1 : p[j] = o[j + 1]
      /\ p[k] = current
      /\ \A j \in k + 1 .. NR_WP : p[j] = o[j]
  BY <1>2, <1>3 DEF Dropped
<1>l. /\ link'[FREE] = current
      /\ link'[current] = link[FREE]
      /\ link'[front] = link[current]
      /\ \A c \in Slots \cup {HEAD} : c # current /\ c # front => link'[c] = link[c]
  BY <1>f, <1>h, <1>t DEF TypeOK
<1>n. ASSUME NEW m \in 1 .. NR_WP, m # i, ~ (i > 1 /\ m = i - 1)
      PROVE  link'[o[m]] = link[o[m]]
  <2>1. o[m] \in Slots /\ o[m] # current /\ o[m] # front
    BY <1>n, <1>f
  <2>2. QED BY <2>1, <1>l
<1>v. current \in heap /\ what[current] # NULL
  BY <1>1, <1>2 DEF HeapOK
<1>4. TypeOK'
  BY <1>t, <1>f, <1>h DEF TypeOK
<1>5. ListsOK(p, k - 1)'
  <2>1. link'[FREE] = IF k - 1 = NR_WP THEN NULL ELSE p[(k - 1) + 1]
    BY <1>l, <1>p
  <2>2. link'[HEAD] = IF k - 1 = 0 THEN NULL ELSE p[1]
    <3>1. CASE i = 1
      <4>1. link'[HEAD] = link[o[1]]
        BY <3>1, <1>2, <1>l
      <4>2. link[o[1]] = IF 1 = k THEN NULL ELSE o[2]
        BY <1>1 DEF ListsOK, Follows
      <4>3. k # 1 => p[1] = o[2]
        BY <3>1, <1>p
      <4>4. QED BY <4>1, <4>2, <4>3
    <3>2. CASE i > 1
      <4>1. link'[HEAD] = link[HEAD]
        <5>1. HEAD # current /\ HEAD # front
          BY <3>2, <1>2, <1>f, <1>o
        <5>2. QED BY <5>1, <1>l
      <4>2. link[HEAD] = o[1] /\ p[1] = o[1]
        BY <3>2, <1>1, <1>p DEF ListsOK
      <4>3. QED BY <3>2, <4>1, <4>2
    <3>3. QED BY <3>1, <3>2
  <2>3. ASSUME NEW j \in 1 .. k - 1
        PROVE  link'[p[j]] = IF j = k - 1 THEN NULL ELSE p[j + 1]
    <3>0. \A m \in 1 .. k : link[o[m]] = IF m = k THEN NULL ELSE o[m + 1]
      BY <1>1 DEF ListsOK, Follows
    <3>1. CASE j < i - 1
      <4>1. p[j] = o[j] /\ p[j + 1] = o[j + 1] /\ j # k - 1 /\ j # k
        BY <3>1, <1>p
      <4>2. link'[o[j]] = link[o[j]]
        <5>1. j \in 1 .. NR_WP /\ j # i /\ ~ (i > 1 /\ j = i - 1)
          BY <3>1
        <5>2. QED BY <5>1, <1>n, Zenon
      <4>3. QED BY <4>1, <4>2, <3>0
    <3>2. CASE j = i - 1
      <4>1. p[j] = front
        BY <3>2, <1>p, <1>f
      <4>2. link[current] = IF i = k THEN NULL ELSE o[i + 1]
        BY <3>0, <1>2
      <4>3. i # k => p[j + 1] = o[i + 1]
        BY <3>2, <1>p
      <4>4. QED BY <3>2, <4>1, <4>2, <4>3, <1>l
    <3>3. CASE j \in i .. k - 1
      <4>1. p[j] = o[j + 1] /\ (j # k - 1 => p[j + 1] = o[(j + 1) + 1])
        BY <3>3, <1>p
      <4>2. link'[o[j + 1]] = link[o[j + 1]]
        <5>1. j + 1 \in 1 .. NR_WP /\ j + 1 # i /\ ~ (i > 1 /\ j + 1 = i - 1)
          BY <3>3
        <5>2. QED BY <5>1, <1>n, Zenon
      <4>3. link[o[j + 1]] = IF j + 1 = k THEN NULL ELSE o[(j + 1) + 1]
        BY <3>3, <3>0
      <4>4. QED BY <3>3, <4>1, <4>2, <4>3
    <3>4. QED BY <3>1, <3>2, <3>3
  <2>4. ASSUME NEW j \in (k - 1) + 1 .. NR_WP
        PROVE  link'[p[j]] = IF j = NR_WP THEN NULL ELSE p[j + 1]
    <3>1. CASE j = k
      <4>1. link[FREE] = IF k = NR_WP THEN NULL ELSE o[k + 1]
        BY <1>1 DEF ListsOK
      <4>2. k # NR_WP => p[k + 1] = o[k + 1]
        BY <1>p
      <4>3. QED BY <3>1, <4>1, <4>2, <1>p, <1>l
    <3>2. CASE j \in k + 1 .. NR_WP
      <4>1. p[j] = o[j] /\ (j # NR_WP => p[j + 1] = o[j + 1])
        BY <3>2, <1>p
      <4>2. link'[o[j]] = link[o[j]]
        <5>1. j \in 1 .. NR_WP /\ j # i /\ ~ (i > 1 /\ j = i - 1)
          BY <3>2
        <5>2. QED BY <5>1, <1>n, Zenon
      <4>3. link[o[j]] = IF j = NR_WP THEN NULL ELSE o[j + 1]
        BY <3>2, <1>1 DEF ListsOK, Follows
      <4>4. QED BY <4>1, <4>2, <4>3
    <3>3. QED BY <3>1, <3>2
  <2>5. QED BY <2>1, <2>2, <2>3, <2>4, Zenon DEF ListsOK, Follows
<1>m. \A j \in 1 .. k - 1 : \E m \in 1 .. k :
        /\ p[j] = o[m] /\ m # i
        /\ m = IF j < i THEN j ELSE j + 1
  <2>1. ASSUME NEW j \in 1 .. k - 1
        PROVE  \E m \in 1 .. k : p[j] = o[m] /\ m # i /\ m = IF j < i THEN j ELSE j + 1
    <3>1. CASE j < i
      BY <3>1, <1>p
    <3>2. CASE ~ (j < i)
      <4>1. j + 1 \in 1 .. k /\ p[j] = o[j + 1] /\ j + 1 # i
        BY <3>2, <1>p
      <4>2. QED BY <3>2, <4>1
    <3>3. QED BY <3>1, <3>2
  <2>2. QED BY <2>1
<1>6. HeapOK(p, k - 1)'
  <2>1. ASSUME NEW j \in 1 .. k - 1 PROVE p[j] \in heap' /\ what'[p[j]] \in Exprs
    <3>1. PICK m \in 1 .. k : p[j] = o[m] /\ m # i
      BY <1>m
    <3>2. o[m] \in heap /\ what[o[m]] \in Exprs /\ o[m] # current
      BY <3>1, <1>1, <1>f DEF HeapOK
    <3>3. QED BY <3>1, <3>2, <1>v
  <2>2. ASSUME NEW j \in (k - 1) + 1 .. NR_WP PROVE p[j] \notin heap'
    <3>1. CASE j = k
      BY <3>1, <1>p, <1>v
    <3>2. CASE j \in k + 1 .. NR_WP
      BY <3>2, <1>p, <1>v, <1>1 DEF HeapOK
    <3>3. QED BY <3>1, <3>2
  <2>3. QED BY <2>1, <2>2, Zenon DEF HeapOK
<1>7. NumbersOK(p, k - 1)'
  <2>1. ASSUME NEW j \in 1 .. k - 1 PROVE NO'[p[j]] < seq'
    <3>1. PICK m \in 1 .. k : p[j] = o[m]
      BY <1>m
    <3>2. QED BY <3>1, <1>1 DEF NumbersOK
  <2>2. ASSUME NEW a \in 1 .. k - 1, NEW b \in 1 .. k - 1, a < b
        PROVE  NO'[p[a]] > NO'[p[b]]
    <3>1. PICK m \in 1 .. k : p[a] = o[m] /\ m = IF a < i THEN a ELSE a + 1
      BY <1>m
    <3>2. PICK n \in 1 .. k : p[b] = o[n] /\ n = IF b < i THEN b ELSE b + 1
      BY <1>m
    <3>3. m < n
      BY <2>2, <3>1, <3>2
    <3>4. QED BY <3>1, <3>2, <3>3, <1>1 DEF NumbersOK
  <2>3. QED BY <2>1, <2>2, Zenon DEF NumbersOK
<1>8. WalkOK(p, k - 1)'
  BY DEF WalkOK
<1>9. QED
  <2>1. k - 1 \in 0 .. NR_WP
    OBVIOUS
  <2>2. QED BY <2>1, <1>4, <1>5, <1>6, <1>7, <1>8 DEF IInv

(***************************************************************************)
(* The other steps leave the lists alone and move the cursor along them.   *)
(***************************************************************************)
LEMMA free_wp_nextIInv ==
  ASSUME IInv, free_wp_next
  PROVE  IInv'
<1> USE PoolAssumption DEF free_wp_next, pool
<1>t. TypeOK
  BY DEF IInv
<1>1. PICK o \in Orders, k \in 0 .. NR_WP :
        ListsOK(o, k) /\ HeapOK(o, k) /\ NumbersOK(o, k) /\ WalkOK(o, k)
  BY DEF IInv
<1>2. PICK i \in 1 .. k :
        current = o[i] /\ \A j \in 1 .. i - 1 : NO[o[j]] # target
  <2>1. PICK i \in 1 .. k + 1 :
          /\ current = IF i = k + 1 THEN NULL ELSE o[i]
          /\ \A j \in 1 .. i - 1 : NO[o[j]] # target
    BY <1>1 DEF WalkOK
  <2>2. i # k + 1
    BY <2>1
  <2>3. QED BY <2>1, <2>2
<1>3. link[o[i]] = IF i = k THEN NULL ELSE o[i + 1]
  BY <1>1 DEF ListsOK, Follows
<1>4. TypeOK'
  BY <1>t DEF TypeOK, Cells
<1>5. ListsOK(o, k)' /\ HeapOK(o, k)' /\ NumbersOK(o, k)'
  BY <1>1 DEF ListsOK, Follows, HeapOK, NumbersOK
<1>6. WalkOK(o, k)'
  <2>1. front' = o[(i + 1) - 1] /\ i + 1 # 1
    BY <1>2
  <2>2. current' = IF i + 1 = k + 1 THEN NULL ELSE o[i + 1]
    BY <1>2, <1>3
  <2>3. \A j \in 1 .. (i + 1) - 1 : NO'[o[j]] # target'
    BY <1>2
  <2>4. i + 1 \in 1 .. k + 1
    OBVIOUS
  <2>5. QED BY <2>1, <2>2, <2>3, <2>4, Zenon DEF WalkOK
<1>7. QED
  BY <1>4, <1>5, <1>6 DEF IInv

LEMMA cmd_dIInv ==
  ASSUME IInv, NEW n \in 0 .. MaxSeq, cmd_d(n)
  PROVE  IInv'
<1> USE PoolAssumption DEF cmd_d, pool
<1>1. PICK o \in Orders, k \in 0 .. NR_WP :
        ListsOK(o, k) /\ HeapOK(o, k) /\ NumbersOK(o, k) /\ WalkOK(o, k)
  BY DEF IInv
<1>2. TypeOK'
  BY DEF IInv, TypeOK, Cells
<1>3. ListsOK(o, k)' /\ HeapOK(o, k)' /\ NumbersOK(o, k)'
  BY <1>1 DEF ListsOK, Follows, HeapOK, NumbersOK
<1>4. WalkOK(o, k)'
  <2>1. current' = IF 1 = k + 1 THEN NULL ELSE o[1]
    BY <1>1 DEF ListsOK
  <2>2. QED BY <2>1 DEF WalkOK
<1>5. QED
  BY <1>2, <1>3, <1>4 DEF IInv

LEMMA QuietIInv ==
  ASSUME IInv, new_wp_assert \/ free_wp_miss \/ cmd_q \/ UNCHANGED vars
  PROVE  IInv'
<1> USE PoolAssumption DEF pool
<1>1. PICK o \in Orders, k \in 0 .. NR_WP :
        ListsOK(o, k) /\ HeapOK(o, k) /\ NumbersOK(o, k) /\ WalkOK(o, k)
  BY DEF IInv
<1>2. UNCHANGED <<link, NO, what, heap, seq>> /\ proc' \in {"up", "exit", "abort"}
  BY DEF IInv, TypeOK, new_wp_assert, free_wp_miss, cmd_q, vars
<1>3. \/ UNCHANGED <<pc, target, current, front>>
      \/ pc' = "prompt" /\ target' = 0 /\ current' = NULL /\ front' = HEAD
  BY DEF new_wp_assert, free_wp_miss, free_wp_return, cmd_q, walk, vars
<1>4. TypeOK'
  BY <1>2, <1>3 DEF IInv, TypeOK
<1>5. ListsOK(o, k)' /\ HeapOK(o, k)' /\ NumbersOK(o, k)'
  BY <1>1, <1>2 DEF ListsOK, Follows, HeapOK, NumbersOK
<1>6. WalkOK(o, k)'
  BY <1>1, <1>2, <1>3 DEF WalkOK
<1>7. QED
  BY <1>4, <1>5, <1>6 DEF IInv

LEMMA NextIInv == IInv /\ [Next]_vars => IInv'
<1> SUFFICES ASSUME IInv, [Next]_vars PROVE IInv'
  OBVIOUS
<1>1. ASSUME NEW e \in Exprs, cmd_w(e) PROVE IInv'
  BY <1>1, cmd_wIInv
<1>2. ASSUME NEW n \in 0 .. MaxSeq, cmd_d(n) PROVE IInv'
  BY <1>2, cmd_dIInv
<1>3. CASE free_wp_next
  BY <1>3, free_wp_nextIInv
<1>4. CASE free_wp_hit
  BY <1>4, free_wp_hitIInv
<1>5. CASE new_wp_assert \/ free_wp_miss \/ cmd_q \/ UNCHANGED vars
  BY <1>5, QuietIInv
<1>6. QED
  BY <1>1, <1>2, <1>3, <1>4, <1>5 DEF Next

(* The inductive invariant holds in every reachable state of the pool.     *)
THEOREM PoolInvariant == Spec => []IInv
<1>1. QED
  BY InitIInv, NextIInv, PTL DEF Spec

(* Every node of wp_pool is on exactly one of the two lists.               *)
THEOREM PoolPartitionHolds == Spec => []PoolPartition
<1>1. IInv => PoolPartition
  BY DEF IInv, PoolPartition
<1>2. QED
  BY <1>1, PoolInvariant, PTL

(* The texts allocated are those of the watchpoints in use: no leak, no    *)
(* second free, no use after it.                                           *)
THEOREM TextOwnedHolds == Spec => []TextOwned
<1>1. IInv => TextOwned
  BY DEF IInv, TextOwned
<1>2. QED
  BY <1>1, PoolInvariant, PTL

(* The list at head is in descending order of numbers, so d N and "info w" *)
(* see each watchpoint once.                                               *)
THEOREM NewestFirstHolds == Spec => []NewestFirst
<1>1. IInv => NewestFirst
  BY DEF IInv, NewestFirst
<1>2. QED
  BY <1>1, PoolInvariant, PTL

(* free_wp unlinks the node whose text it has released.                    *)
THEOREM UnlinksWhatItFreesHolds == Spec => []UnlinksWhatItFrees
<1>1. IInv => UnlinksWhatItFrees
  <2> SUFFICES ASSUME IInv, pc = "walk", current # NULL
               PROVE  link[front] = current /\ current \in heap
    BY DEF UnlinksWhatItFrees
  <2> USE PoolAssumption
  <2>1. PICK o \in Orders, k \in 0 .. NR_WP :
          ListsOK(o, k) /\ HeapOK(o, k) /\ WalkOK(o, k)
    BY DEF IInv
  <2>2. PICK i \in 1 .. k + 1 :
          /\ front = IF i = 1 THEN HEAD ELSE o[i - 1]
          /\ current = IF i = k + 1 THEN NULL ELSE o[i]
    BY <2>1 DEF WalkOK
  <2>3. i \in 1 .. k /\ current = o[i]
    BY <2>2
  <2>4. current \in heap
    BY <2>1, <2>3 DEF HeapOK
  <2>5. CASE i = 1
    BY <2>1, <2>2, <2>3, <2>4, <2>5 DEF ListsOK
  <2>6. CASE i > 1
    <3>1. i - 1 \in 1 .. k /\ front = o[i - 1]
      BY <2>2, <2>3, <2>6
    <3>2. link[o[i - 1]] = IF i - 1 = k THEN NULL ELSE o[(i - 1) + 1]
      BY <2>1, <3>1 DEF ListsOK, Follows
    <3>3. QED BY <3>1, <3>2, <2>3, <2>4
  <2>7. QED BY <2>3, <2>4, <2>5, <2>6
<1>2. QED
  BY <1>1, PoolInvariant, PTL

---------------------------------------------------------------------------
(* The linked pool implements the bounded set of numbered watchpoints, for *)
(* every size of the pool.                                                 *)
Live == {NO[s] : s \in heap}

(* What the mapping needs to know of a reachable state. *)
WatchedFacts ==
  /\ TypeOK
  /\ \A s, t \in heap : NO[s] = NO[t] => s = t
  /\ \A s \in heap : NO[s] < seq
  /\ \A s \in heap : watched[NO[s]] = what[s]
  /\ DOMAIN watched = Live
  /\ Cardinality(Live) = NR_WP <=> link[FREE] = NULL
  /\ link[FREE] # NULL => (Cardinality(Live) < NR_WP /\ link[FREE] \in Slots \ heap)
  /\ link[HEAD] = NULL <=> Live = {}

LEMMA WatchedFromIInv == IInv => WatchedFacts
<1> SUFFICES ASSUME IInv PROVE WatchedFacts
  OBVIOUS
<1> USE PoolAssumption
<1>t. TypeOK
  BY DEF IInv
<1>1. PICK o \in Orders, k \in 0 .. NR_WP :
        ListsOK(o, k) /\ HeapOK(o, k) /\ NumbersOK(o, k)
  BY DEF IInv
<1>o. /\ o \in [1 .. NR_WP -> Slots]
      /\ \A a, b \in 1 .. NR_WP : o[a] = o[b] => a = b
      /\ \A s \in Slots : \E a \in 1 .. NR_WP : o[a] = s
  BY OrderFacts, Zenon
<1>2. \A s \in heap : \E i \in 1 .. k : s = o[i]
  <2> SUFFICES ASSUME NEW s \in heap PROVE \E i \in 1 .. k : s = o[i]
    OBVIOUS
  <2>1. PICK a \in 1 .. NR_WP : o[a] = s
    BY <1>o, <1>t DEF TypeOK
  <2>2. a \in 1 .. k
    BY <2>1, <1>1 DEF HeapOK
  <2>3. QED BY <2>1, <2>2
<1>3. \A i, j \in 1 .. k : NO[o[i]] = NO[o[j]] => i = j
  <2> SUFFICES ASSUME NEW i \in 1 .. k, NEW j \in 1 .. k, NO[o[i]] = NO[o[j]]
               PROVE  i = j
    OBVIOUS
  <2>1. NO[o[i]] \in Nat /\ NO[o[j]] \in Nat
    BY <1>o, <1>t DEF TypeOK
  <2>2. QED BY <2>1, <1>1 DEF NumbersOK
<1>4. \A s, t \in heap : NO[s] = NO[t] => s = t
  BY <1>2, <1>3
<1>5. \A s \in heap : NO[s] < seq
  BY <1>1, <1>2 DEF NumbersOK
<1>6. DOMAIN watched = Live
  BY DEF watched, Live
<1>7. ASSUME NEW s \in heap PROVE watched[NO[s]] = what[s]
  <2>1. (CHOOSE t \in heap : NO[t] = NO[s]) = s
    BY <1>4
  <2>2. QED BY <2>1 DEF watched
<1>8. Cardinality(Live) = k
  <2> DEFINE g == [i \in 1 .. k |-> NO[o[i]]]
  <2>1. \A i \in 1 .. k : o[i] \in heap
    BY <1>1 DEF HeapOK
  <2>2. g \in [1 .. k -> Live]
    BY <2>1 DEF Live
  <2>3. \A n \in Live : \E i \in 1 .. k : g[i] = n
    BY <1>2 DEF Live
  <2>4. \A i, j \in 1 .. k : g[i] = g[j] => i = j
    BY <1>3
  <2>5. g \in Bijection(1 .. k, Live)
    <3>1. DOMAIN g = 1 .. k
      OBVIOUS
    <3>2. QED
      BY <2>2, <2>3, <2>4, <3>1, Zenon
      DEF Bijection, Injection, Surjection, IsInjective
  <2>6. ExistsBijection(1 .. k, Live)
    BY <2>5, Zenon DEF ExistsBijection
  <2>7. IsFiniteSet(1 .. k) /\ Cardinality(1 .. k) = k
    BY FS_Interval
  <2>8. QED BY <2>6, <2>7, FS_Bijection
<1>9. link[FREE] = NULL <=> k = NR_WP
  BY <1>1, <1>o DEF ListsOK
<1>10. link[FREE] # NULL => link[FREE] \in Slots \ heap
  <2>1. SUFFICES ASSUME k < NR_WP PROVE o[k + 1] \in Slots \ heap
    BY <1>1, <1>9 DEF ListsOK
  <2>2. o[k + 1] \in Slots
    BY <1>o, <2>1
  <2>3. o[k + 1] \notin heap
    BY <1>1, <2>1 DEF HeapOK
  <2>4. QED BY <2>2, <2>3
<1>11. link[HEAD] = NULL <=> Live = {}
  <2>1. link[HEAD] = NULL <=> k = 0
    BY <1>1, <1>o DEF ListsOK
  <2>2. k = 0 => heap = {}
    BY <1>2
  <2>3. k # 0 => o[1] \in heap
    BY <1>1 DEF HeapOK
  <2>4. QED BY <2>1, <2>2, <2>3 DEF Live
<1>12. QED
  BY <1>t, <1>4, <1>5, <1>6, <1>7, <1>8, <1>9, <1>10, <1>11 DEF WatchedFacts

LEMMA InitMaps == Init => WL!Init
<1>1. Init => seq = 0 /\ proc = "up" /\ heap = {}
  BY DEF Init, init_wp_pool
<1>2. heap = {} => watched = [n \in {} |-> NR_WP]
  BY DEF watched
<1>3. QED
  BY <1>1, <1>2 DEF WL!Init

(* w adds the fresh number and changes no other. *)
LEMMA cmd_wMaps ==
  ASSUME WatchedFacts, WatchedFacts', NEW e \in Exprs, cmd_w(e)
  PROVE  WL!Set(e)
<1> USE DEF cmd_w, fill_wp, Prompt
<1>0. TypeOK
  BY DEF WatchedFacts
<1>1. PICK t \in Slots \ heap : t = link[FREE]
  BY DEF WatchedFacts
<1>2. /\ heap' = heap \cup {t}
      /\ NO'[t] = seq /\ what'[t] = e
      /\ \A s \in heap : NO'[s] = NO[s] /\ what'[s] = what[s]
  BY <1>0, <1>1 DEF TypeOK
<1>3. Live' = Live \cup {seq}
  BY <1>2 DEF Live
<1>4. DOMAIN watched' = DOMAIN watched \cup {seq}
  BY <1>3 DEF WatchedFacts
<1>5. ASSUME NEW n \in DOMAIN watched'
      PROVE  watched'[n] = IF n = seq THEN e ELSE watched[n]
  <2>1. CASE n = seq
    BY <2>1, <1>2 DEF WatchedFacts
  <2>2. CASE n # seq
    <3>1. PICK s \in heap : n = NO[s]
      BY <2>2, <1>4 DEF WatchedFacts, Live
    <3>2. watched'[NO'[s]] = what'[s] /\ watched[NO[s]] = what[s]
      BY <1>2, <3>1 DEF WatchedFacts
    <3>3. QED BY <3>1, <3>2, <1>2, <2>2
  <2>3. QED BY <2>1, <2>2
<1>6. watched' = [n \in DOMAIN watched \cup {seq} |-> IF n = seq THEN e ELSE watched[n]]
  <2>1. watched' = [n \in DOMAIN watched' |-> watched'[n]]
    BY DEF watched
  <2>2. QED BY <2>1, <1>4, <1>5
<1>7. Cardinality(DOMAIN watched) < NR_WP
  BY DEF WatchedFacts
<1>8. proc = "up" /\ seq < MaxSeq /\ seq' = seq + 1 /\ UNCHANGED proc
  OBVIOUS
<1>9. QED
  BY <1>6, <1>7, <1>8, Zenon DEF WL!Set, WL!Cardinality, Cardinality

(* d N reaching the watchpoint N removes that number and no other. *)
LEMMA free_wp_hitMaps ==
  ASSUME WatchedFacts, WatchedFacts', UnlinksWhatItFrees, TextOwned, proc = "up",
         free_wp_hit
  PROVE  WL!Delete(target)
<1> USE DEF free_wp_hit, free_what
<1>0. TypeOK
  BY DEF WatchedFacts
<1>1. current \in heap /\ NO[current] = target
  BY DEF UnlinksWhatItFrees
<1>2. heap' = heap \ {current}
  <2>1. what[current] \in Exprs
    <3>1. PICK o \in Orders, k \in 0 .. NR_WP : HeapOK(o, k)
      BY DEF TextOwned
    <3>2. \A s \in Slots : \E a \in 1 .. NR_WP : o[a] = s
      BY OrderFacts, Zenon
    <3>3. PICK a \in 1 .. NR_WP : o[a] = current
      BY <1>0, <1>1, <3>2 DEF TypeOK
    <3>4. a \in 1 .. k
      BY <1>1, <3>1, <3>3, PoolAssumption DEF HeapOK
    <3>5. QED BY <3>1, <3>3, <3>4 DEF HeapOK
  <2>2. QED BY <2>1, PoolAssumption
<1>3. Live' = Live \ {target}
  BY <1>1, <1>2 DEF Live, WatchedFacts
<1>4. DOMAIN watched' = DOMAIN watched \ {target}
  BY <1>3 DEF WatchedFacts
<1>5. ASSUME NEW n \in DOMAIN watched' PROVE watched'[n] = watched[n]
  <2>1. PICK s \in heap' : n = NO[s]
    BY DEF WatchedFacts, Live
  <2>2. watched'[NO'[s]] = what'[s] /\ watched[NO[s]] = what[s]
    BY <1>2, <2>1 DEF WatchedFacts
  <2>3. QED BY <2>1, <2>2
<1>6. watched' = Restrict(watched, DOMAIN watched \ {target})
  <2>1. watched' = [n \in DOMAIN watched' |-> watched'[n]]
    BY DEF watched
  <2>2. QED BY <2>1, <1>4, <1>5 DEF Restrict
<1>7. target \in DOMAIN watched
  BY <1>1 DEF WatchedFacts, Live
<1>8. proc = "up" /\ UNCHANGED <<seq, proc>>
  OBVIOUS
<1>9. QED
  BY <1>6, <1>7, <1>8, Zenon DEF WL!Delete, WL!Restrict, Restrict

(* The cursor of free_wp and the process status, in step with each other.  *)
LEMMA WalkOnlyWhenUp == Spec => [](pc = "walk" => proc = "up")
<1>1. Init => (pc = "walk" => proc = "up")
  BY DEF Init
<1>2. (pc = "walk" => proc = "up") /\ [Next]_vars => (pc = "walk" => proc = "up")'
  BY DEF Next, vars, walk, Prompt, cmd_w, new_wp_assert, cmd_d, free_wp_next,
         free_wp_hit, free_wp_miss, free_wp_return, cmd_q
<1>3. QED
  BY <1>1, <1>2, PTL DEF Spec

LEMMA NextMaps ==
  ASSUME WatchedFacts, WatchedFacts', UnlinksWhatItFrees, TextOwned,
         pc = "walk" => proc = "up", [Next]_vars
  PROVE  [WL!Next]_(WL!vars)
<1>1. ASSUME NEW e \in Exprs, cmd_w(e) PROVE WL!Next
  BY <1>1, cmd_wMaps, Zenon DEF WL!Next
<1>2. CASE new_wp_assert
  <2>1. watched' = watched /\ UNCHANGED seq /\ proc = "up" /\ proc' = "abort"
    BY <1>2 DEF new_wp_assert, pool, watched, Prompt
  <2>2. Cardinality(DOMAIN watched) = NR_WP
    BY <1>2 DEF new_wp_assert, WatchedFacts
  <2>3. WL!Exhausted
    BY <2>1, <2>2, Zenon DEF WL!Exhausted, WL!Cardinality, Cardinality
  <2>4. QED BY <2>3 DEF WL!Next
<1>3. ASSUME NEW n \in 0 .. MaxSeq, cmd_d(n) PROVE UNCHANGED WL!vars
  BY <1>3 DEF cmd_d, pool, watched, WL!vars
<1>4. CASE free_wp_next
  BY <1>4 DEF free_wp_next, pool, watched, WL!vars
<1>5. CASE free_wp_hit
  <2>1. proc = "up"
    BY <1>5 DEF free_wp_hit
  <2>2. WL!Delete(target)
    BY <2>1, <1>5, free_wp_hitMaps
  <2>3. target \in 0 .. MaxSeq
    BY DEF WatchedFacts, TypeOK
  <2>4. QED BY <2>2, <2>3 DEF WL!Next
<1>6. CASE free_wp_miss
  BY <1>6 DEF free_wp_miss, pool, watched, WL!vars
<1>7. CASE cmd_q
  <2>1. watched' = watched /\ UNCHANGED seq /\ proc = "up"
    BY <1>7 DEF cmd_q, pool, watched, Prompt
  <2>2. proc' \in IF DOMAIN watched = {} THEN {"exit"} ELSE {"exit", "abort"}
    BY <1>7 DEF cmd_q, WatchedFacts
  <2>3. WL!Quit
    BY <2>1, <2>2, Zenon DEF WL!Quit
  <2>4. QED BY <2>3 DEF WL!Next
<1>8. CASE UNCHANGED vars
  BY <1>8 DEF vars, pool, watched, WL!vars
<1>9. QED
  BY <1>1, <1>2, <1>3, <1>4, <1>5, <1>6, <1>7, <1>8 DEF Next

(* The pool of linked nodes implements the bounded set of numbered         *)
(* watchpoints that w, d and q work on, whatever the size of the pool.     *)
THEOREM PoolImplementsWatchList == Spec => WatchListSpec
<1>1. IInv => WatchedFacts
  BY WatchedFromIInv
<1>2. WatchedFacts /\ WatchedFacts' /\ UnlinksWhatItFrees /\ TextOwned
        /\ (pc = "walk" => proc = "up") /\ [Next]_vars => [WL!Next]_(WL!vars)
  BY NextMaps
<1>3. Init => WL!Init
  BY InitMaps
<1>4. QED
  BY <1>1, <1>2, <1>3, PoolInvariant, UnlinksWhatItFreesHolds, TextOwnedHolds,
     WalkOnlyWhenUp, PTL DEF Spec, WatchListSpec, WL!Spec
=============================================================================
