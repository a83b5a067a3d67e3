----------------------------- MODULE InboxProofs -----------------------------
(***************************************************************************)
(* The inbox, for any number of callbacks, messages, contacts, instances   *)
(* and clients, and for pages of any size.                                 *)
(***************************************************************************)
EXTENDS Inbox, FiniteSetTheorems, TLAPS

Types ==
    /\ link \in [Link -> LinkRow \cup {None}]
    /\ \A c \in Callback : callback[c].at \in {"sent", "open", "answered"}
                           /\ callback[c].deliveries \in 0..MaxDeliveries
                           /\ DOMAIN callback[c] = {"at", "deliveries"}
    /\ \A m \in Message : work[m].at \in {"none", "look", "link", "store", "done"}
                          /\ work[m].link \in Link \cup {None}
                          /\ DOMAIN work[m] = {"at", "link", "blocked"}
    /\ client \in [Client -> {"off", "joining", "on", "leaving"}]
    /\ clients \in [Instance -> SUBSET Client] /\ subscribed \subseteq Instance
    /\ \A k \in Client : page[k].asked \in Nat /\ page[k].query \in Query
    /\ \A x \in sending : x.link \in Link /\ x.read \in LinkRow /\ x.read.tx = None
    /\ DOMAIN callback = Callback /\ DOMAIN work = Message
    /\ DOMAIN page = Client /\ DOMAIN seen = Client /\ DOMAIN known = Callback

\* Rows have their shape, one time each, and refer to links that are there.
Rows ==
    /\ IsFiniteSet(rows)
    /\ \A r \in rows : IsRow(r) /\ \E l \in LinksSeenBy(r.tx) : l \in {r.from, r.to}
    /\ \A r, x \in rows : r.at = x.at => r = x

\* A message is handled while its callback is open, and stored with a link.
Handled ==
    \A m \in Message : work[m].at # "none" =>
        /\ callback[CallbackOf(m)].at = "open"
        /\ work[m].at = "store" => work[m].link \in Link

HasRow(m, tx) == \E r \in rows : r.message = m /\ r.tx = tx

\* What is done in a callback that is open is in its transaction, and what was
\* answered is stored.
Kept ==
    \A c \in Callback : \A m \in Batch[c] :
        /\ callback[c].at = "open" /\ work[m].at = "done" => m \in silenced \/ HasRow(m, c)
        /\ callback[c].at = "answered" => m \in silenced \/ HasRow(m, None)

\* Numbers that had a link have one, and none is created for them.
KnownLinked ==
    /\ \A c \in Callback : \A n \in known[c] : \E l \in LinksSeenBy(None) : link[l].number = n
    /\ SplitOnlyByRace

\* Clients of a channel, and the one that opens or closes it, which is alone.
Channels ==
    /\ \A k \in Client, i \in Instance :
         k \in clients[i] <=> home[k] = i /\ client[k] \in {"joining", "on"}
    /\ \A k \in Client : client[k] = "joining" => clients[home[k]] = {k}
    /\ \A k \in Client : client[k] = "leaving" => clients[home[k]] = {}
    /\ \A k \in Client : client[k] # "on" => page[k] = NoPage
    /\ \A k \in Client : Shared /\ client[k] = "on" => home[k] \in subscribed \cup deaf

\* The newest rows of a set, one of each conversation, and what a query selects
\* from a set of rows.
Tops(S)        == {r \in S : \A x \in S : With(x) = With(r) => x.at <= r.at}
Select(q, S)   == IF q.kind = "conversations" THEN Tops(S) ELSE {r \in S : Wanted(q, r)}
Selection(k)   == Select(page[k].query, Stored)

Listens(k) == client[k] = "on" /\ (Shared => home[k] \in subscribed)

Unread(k, r) == ~page[k].ended /\ page[k].asked * PageSize <= Before(Selection(k), r)

\* On the way to the instance of a client, or lost on it.
OnTheWay(k, r) == r \in announce \/ [to |-> home[k], row |-> r] \in wire \cup lost

\* Whoever listens has what it asks for, or hears of it, or has still to read it.
Covered ==
    \A k \in Client : Listens(k) =>
        \A r \in Selection(k) : r \in seen[k] \/ OnTheWay(k, r) \/ Unread(k, r)

\* Only what is stored is told.
OnlyStored ==
    /\ announce \subseteq Stored
    /\ \A w \in wire : w.row \in Stored
    /\ \A k \in Client : seen[k] \subseteq Stored

InboxInv ==
    /\ Types /\ Rows /\ Handled /\ Kept /\ KnownLinked
    /\ Channels /\ Covered /\ OnlyStored
-----------------------------------------------------------------------------
(* Numbers, and pages.                                                     *)

\* A set of numbers with an element has a last one when it is finite, ...
LEMMA MaxIsThere ==
    ASSUME NEW S, S \subseteq Nat, IsFiniteSet(S), S # {}
    PROVE  Max(S) \in S /\ \A y \in S : y <= Max(S)
<1> DEFINE Above(x) == {y \in S : y > x}
           T == {Above(x) : x \in S}
<1>1. T \subseteq FiniteSubsetsOf(S) /\ T # {}
  <2>1. ASSUME NEW x \in S
        PROVE  Above(x) \in FiniteSubsetsOf(S)
    <3>1. Above(x) \in SUBSET S
      OBVIOUS
    <3> HIDE DEF Above
    <3> QED
      BY <3>1, FS_Subset DEF FiniteSubsetsOf
  <2>2. T # {}
    OBVIOUS
  <2> HIDE DEF Above
  <2> QED
    BY <2>1, <2>2
<1>2. PICK U \in T : \A V \in T : <<V, U>> \notin StrictSubsetOrdering(S)
  <2> HIDE DEF T
  <2> QED
    BY <1>1, FS_StrictSubsetOrderingWellFounded, WFMin
<1>3. PICK x \in S : U = Above(x)
  OBVIOUS
<1>4. ASSUME NEW y \in S, y > x
      PROVE  FALSE
  <2>1. Above(y) \subseteq U /\ y \in U /\ y \notin Above(y)
    <3>1. x \in Nat /\ y \in Nat /\ \A z \in S : z \in Nat
      OBVIOUS
    <3>2. (\A z \in S : z > y => z > x) /\ ~(y > y)
      BY <1>4, <3>1
    <3>3. Above(y) \subseteq Above(x) /\ y \in Above(x) /\ y \notin Above(y)
      BY <1>4, <3>2, Zenon
    <3> QED
      BY <1>3, <3>3
  <2>2. Above(y) \in T /\ U \subseteq S
    BY <1>3
  <2>3. <<Above(y), U>> \in StrictSubsetOrdering(S)
    <3> HIDE DEF Above, T
    <3> QED
      BY <2>1, <2>2 DEF StrictSubsetOrdering
  <2> QED
    BY <1>2, <2>2, <2>3
<1>5. \A y \in S : y <= x
  BY <1>4
<1> QED
  BY <1>5 DEF Max

\* ... and a first one in any case.
LEMMA MinIsThere ==
    ASSUME NEW S, S \subseteq Nat, S # {}
    PROVE  Min(S) \in S /\ \A y \in S : Min(S) <= y
<1>1. PICK n \in S : TRUE
  OBVIOUS
<1> DEFINE Below(x) == {y \in S : y < x}
           T == {Below(x) : x \in {y \in S : y <= n}}
<1>2. T \subseteq FiniteSubsetsOf(S) /\ T # {}
  <2>1. ASSUME NEW x \in S
        PROVE  IsFiniteSet(Below(x))
    <3>1. Below(x) \in SUBSET Nat /\ x \in Nat /\ \A y \in Below(x) : y <= x
      <4>1. x \in Nat /\ \A y \in S : y \in Nat /\ (y < x => y <= x)
        OBVIOUS
      <4> QED
        BY <4>1, Zenon
    <3> HIDE DEF Below
    <3> QED
      BY <3>1, FS_BoundedSetOfNaturals
  <2>2. T # {}
    <3>1. n \in {y \in S : y <= n}
      OBVIOUS
    <3> HIDE DEF Below
    <3> QED
      BY <3>1
  <2>3. \A x \in S : Below(x) \in SUBSET S
    OBVIOUS
  <2> HIDE DEF Below
  <2> QED
    BY <2>1, <2>2, <2>3 DEF FiniteSubsetsOf
<1>3. PICK U \in T : \A V \in T : <<V, U>> \notin StrictSubsetOrdering(S)
  <2> HIDE DEF T
  <2> QED
    BY <1>2, FS_StrictSubsetOrderingWellFounded, WFMin
<1>4. PICK x \in S : U = Below(x) /\ x <= n
  OBVIOUS
<1>5. ASSUME NEW y \in S, y < x
      PROVE  FALSE
  <2>1. Below(y) \subseteq U /\ y \in U /\ y \notin Below(y)
    <3>1. x \in Nat /\ y \in Nat /\ \A z \in S : z \in Nat
      OBVIOUS
    <3>2. (\A z \in S : z < y => z < x) /\ ~(y < y)
      BY <1>5, <3>1
    <3>3. Below(y) \subseteq Below(x) /\ y \in Below(x) /\ y \notin Below(y)
      BY <1>5, <3>2, Zenon
    <3> QED
      BY <1>4, <3>3
  <2>2. Below(y) \in T /\ U \subseteq S
    BY <1>1, <1>4, <1>5
  <2>3. <<Below(y), U>> \in StrictSubsetOrdering(S)
    <3> HIDE DEF Below, T
    <3> QED
      BY <2>1, <2>2 DEF StrictSubsetOrdering
  <2> QED
    BY <1>3, <2>2, <2>3
<1>6. \A y \in S : x <= y
  BY <1>5
<1> QED
  BY <1>6 DEF Min

\* What a function makes of a finite set is finite.
LEMMA ImageIsFinite ==
    ASSUME NEW S, IsFiniteSet(S), NEW T, NEW f \in [S -> T], \A t \in T : \E x \in S : f[x] = t
    PROVE  IsFiniteSet(T)
<1>1. f \in Surjection(S, T)
  BY DEF Surjection
<1> QED
  BY <1>1, FS_Surjection

\* How many rows are newer than a row, in a set of rows of different times.
Dated(S) ==
    /\ IsFiniteSet(S)
    /\ \A r \in S : r.at \in Nat
    /\ \A r, x \in S : r.at = x.at => r = x

LEMMA BeforeIsNumber ==
    ASSUME NEW S, Dated(S), NEW r
    PROVE  Before(S, r) \in Nat /\ IsFiniteSet({x \in S : x.at > r.at})
<1>1. IsFiniteSet({x \in S : x.at > r.at})
  BY FS_Subset DEF Dated
<1> QED
  BY <1>1, FS_CardinalityType DEF Before

\* The more rows there are, the further a row is from the first page.
LEMMA BeforeGrows ==
    ASSUME NEW S, NEW R, S \subseteq R, Dated(R), NEW r
    PROVE  Before(S, r) <= Before(R, r)
<1>1. IsFiniteSet({x \in R : x.at > r.at})
  BY BeforeIsNumber
<1>2. {x \in S : x.at > r.at} \in SUBSET {x \in R : x.at > r.at}
  OBVIOUS
<1> QED
  BY <1>1, <1>2, FS_Subset DEF Before

\* A page that is not full is the last one: the rows that are newer than a row
\* stand on the places before it, one on each.
LEMMA ShortPageIsLast ==
    ASSUME NEW S, Dated(S), NEW n \in Nat, NEW r \in S,
           (n + 1) * PageSize <= Before(S, r)
    PROVE  PageSize <= Cardinality(Page(S, n))
<1> DEFINE N == {x \in S : x.at > r.at}
           b == Before(S, r)
           f == [x \in N |-> Before(S, x)]
           lo == n * PageSize
           hi == (n + 1) * PageSize - 1
<1>1. b \in Nat /\ IsFiniteSet(N) /\ Cardinality(N) = b
  BY BeforeIsNumber DEF Before
<1>2. lo \in Nat /\ hi \in Nat /\ hi = lo + PageSize - 1 /\ hi <= b - 1 /\ PageSize \in Nat \ {0}
  BY InboxAssumption, <1>1
<1>3. ASSUME NEW x \in S, NEW y \in S, x.at > y.at
      PROVE  Before(S, x) < Before(S, y) /\ Before(S, x) \in Nat /\ Before(S, y) \in Nat
  <2> DEFINE X == {z \in S : z.at > x.at}
             Y == {z \in S : z.at > y.at}
  <2>1. IsFiniteSet(Y) /\ Cardinality(X) \in Nat /\ Cardinality(Y) \in Nat
    BY BeforeIsNumber DEF Before
  <2>2. X \in SUBSET Y /\ x \in Y /\ x \notin X
    BY <1>3 DEF Dated
  <2>3. Cardinality(X) <= Cardinality(Y) /\ Cardinality(X) # Cardinality(Y)
    <3> HIDE DEF X, Y
    <3> QED
      BY <2>1, <2>2, FS_Subset
  <2> QED
    BY <2>1, <2>3 DEF Before
<1>4. f \in Injection(N, 0 .. b - 1)
  <2>1. ASSUME NEW x \in N
        PROVE  Before(S, x) \in 0 .. b - 1
    BY <1>1, <1>3
  <2>2. ASSUME NEW x \in N, NEW y \in N, x # y
        PROVE  Before(S, x) # Before(S, y)
    <3>1. x.at # y.at /\ x.at \in Nat /\ y.at \in Nat
      BY <2>2 DEF Dated
    <3>2. CASE x.at > y.at
      BY <1>3, <3>2
    <3>3. CASE y.at > x.at
      BY <1>3, <3>3
    <3> QED
      BY <3>1, <3>2, <3>3
  <2> QED
    BY <2>1, <2>2 DEF Injection, IsInjective
<1>5. IsFiniteSet(0 .. b - 1) /\ Cardinality(0 .. b - 1) = b
  <2>1. 0 \in Int /\ b - 1 \in Int /\ (0 > b - 1 => b = 0)
    BY <1>1
  <2>2. IsFiniteSet(0 .. b - 1)
        /\ Cardinality(0 .. b - 1) = IF 0 > b - 1 THEN 0 ELSE b - 1 - 0 + 1
    <3> HIDE DEF b
    <3> QED
      BY <2>1, FS_Interval
  <2> HIDE DEF b
  <2> QED
    BY <1>1, <2>1, <2>2
<1>6. f \in Surjection(N, 0 .. b - 1)
  <2> HIDE DEF f, N, b
  <2> QED
    BY <1>1, <1>4, <1>5, FS_Injection
<1>7. ASSUME NEW i \in lo .. hi
      PROVE  \E x \in Page(S, n) : Before(S, x) = i
  <2>1. i \in 0 .. b - 1
    BY <1>1, <1>2
  <2>2. PICK x \in N : f[x] = i
    BY <1>6, <2>1 DEF Surjection
  <2>3. x \in S /\ Before(S, x) = i
    BY <2>2
  <2> QED
    BY <2>3 DEF Page
<1> DEFINE g == [x \in Page(S, n) |-> Before(S, x)]
<1>8. g \in Surjection(Page(S, n), lo .. hi)
  BY <1>7 DEF Surjection, Page
<1>9. IsFiniteSet(Page(S, n))
  BY FS_Subset DEF Page, Dated
<1>10. Cardinality(lo .. hi) = PageSize
  BY <1>2, FS_Interval
<1>11. Cardinality(lo .. hi) <= Cardinality(Page(S, n))
  <2> HIDE DEF g, lo, hi
  <2> QED
    BY <1>8, <1>9, FS_Surjection
<1> QED
  BY <1>10, <1>11
-----------------------------------------------------------------------------
(* Callbacks, links and rows.                                              *)

\* Each message comes in one callback.
LEMMA OneCallback ==
    /\ \A m \in Message : CallbackOf(m) \in Callback /\ m \in Batch[CallbackOf(m)]
    /\ \A c \in Callback : \A m \in Batch[c] : m \in Message /\ CallbackOf(m) = c
<1>1. \A m \in Message : CallbackOf(m) \in Callback /\ m \in Batch[CallbackOf(m)]
  BY InboxAssumption DEF CallbackOf
<1>2. ASSUME NEW c \in Callback, NEW m \in Batch[c]
      PROVE  m \in Message /\ CallbackOf(m) = c
  <2>1. m \in Message
    BY InboxAssumption
  <2>2. \A d \in Callback : m \in Batch[d] => d = c
    BY InboxAssumption
  <2> QED
    BY <1>1, <2>1, <2>2
<1> QED
  BY <1>1, <1>2

LEMMA NewLinkIsRow ==
    ASSUME NEW m \in Message, NEW tx \in Callback \cup {None}
    PROVE  /\ NewLink(sender[m], tx) \in LinkRow /\ NewLink(sender[m], tx) # None
           /\ NewLink(sender[m], tx).number = sender[m] /\ NewLink(sender[m], tx).tx = tx
           /\ NewLink(sender[m], tx).blocked = FALSE
<1>1. NewLink(sender[m], tx) \in LinkRow
  BY DEF NewLink, LinkRow
<1> QED
  BY <1>1, NoneAssumption DEF NewLink

LEMMA StoredIsDated ==
    /\ Rows => Dated(Stored)
    /\ Rows' => Dated(Stored')
<1>1. Stored \in SUBSET rows /\ Stored' \in SUBSET rows'
  BY DEF Stored
<1> QED
  BY <1>1, FS_Subset DEF Dated, Rows, IsRow

\* A row that is inserted is the newest.
LEMMA NewRowIsLast ==
    ASSUME Rows, NEW m \in Message \cup {None}, NEW tx \in Callback \cup {None},
           NEW from \in Link \cup {None}, NEW to \in Link \cup {None},
           (from = None) # (to = None)
    PROVE  /\ IsRow(Row(m, from, to, tx)) /\ \A x \in rows : x.at < Row(m, from, to, tx).at
           /\ Row(m, from, to, tx).message = m /\ Row(m, from, to, tx).tx = tx
           /\ Row(m, from, to, tx).from = from /\ Row(m, from, to, tx).to = to
<1> DEFINE times == {r.at : r \in rows}
           last == IF rows = {} THEN 0 ELSE 1 + Max(times)
<1>1. times \subseteq Nat
  BY DEF Rows, IsRow
<1>2. IsFiniteSet(times)
  <2> DEFINE f == [r \in rows |-> r.at]
  <2>1. f \in [rows -> times] /\ \A t \in times : \E r \in rows : f[r] = t
    OBVIOUS
  <2> HIDE DEF times, f
  <2> QED
    BY <2>1, ImageIsFinite DEF Rows
<1>3. last \in Nat /\ \A x \in rows : x.at < last
  <2>1. CASE rows = {}
    BY <2>1
  <2>2. CASE rows # {}
    <3>1. times # {} /\ \A x \in rows : x.at \in times
      BY <2>2
    <3>2. Max(times) \in times /\ \A t \in times : t <= Max(times)
      <4> HIDE DEF times
      <4> QED
        BY <1>1, <1>2, <3>1, MaxIsThere
    <3>3. last = 1 + Max(times)
      BY <2>2
    <3>4. Max(times) \in Nat /\ \A x \in rows : x.at \in Nat /\ x.at <= Max(times)
      BY <1>1, <3>1, <3>2, Zenon
    <3> HIDE DEF times, last
    <3> QED
      BY <3>3, <3>4
  <2> QED
    BY <2>1, <2>2
<1>4. Row(m, from, to, tx) = [message |-> m, from |-> from, to |-> to, tx |-> tx, at |-> last]
  BY DEF Row
<1> HIDE DEF last
<1> QED
  BY <1>3, <1>4 DEF IsRow

\* No link goes away, gets another number or changes its transaction.
LinksStay ==
    \A l \in Link : link[l] # None =>
        /\ link'[l] # None /\ link'[l].number = link[l].number /\ link'[l].tx = link[l].tx

LEMMA SeenStay ==
    ASSUME LinksStay, NEW tx
    PROVE  /\ LinksSeenBy(tx) \subseteq LinksSeenBy(tx)'
           /\ \A l \in LinksSeenBy(tx) : link'[l].number = link[l].number
BY DEF LinksStay, LinksSeenBy

LEMMA RowAdded ==
    ASSUME Rows, LinksStay, NEW r, IsRow(r), rows' = rows \cup {r}, \A x \in rows : x.at < r.at,
           \E l \in LinksSeenBy(r.tx)' : l \in {r.from, r.to}
    PROVE  Rows'
<1>1. IsFiniteSet(rows')
  BY FS_AddElement DEF Rows
<1>2. \A x \in rows : \E l \in LinksSeenBy(x.tx)' : l \in {x.from, x.to}
  BY SeenStay DEF Rows
<1>3. \A x, y \in rows' : x.at = y.at => x = y
  BY DEF Rows, IsRow
<1> QED
  BY <1>1, <1>2, <1>3 DEF Rows

LEMMA RowsStay ==
    ASSUME Rows, LinksStay, UNCHANGED rows
    PROVE  Rows'
BY SeenStay DEF Rows

-----------------------------------------------------------------------------
(* What queries select.                                                    *)

\* Each row has a newest one of its conversation.
LEMMA TopIsThere ==
    ASSUME NEW S, Dated(S), NEW x \in S
    PROVE  \E y \in Tops(S) : With(y) = With(x) /\ x.at <= y.at
<1> DEFINE C == {z \in S : With(z) = With(x)}
           T == {z.at : z \in C}
           f == [z \in C |-> z.at]
<1>1. C \in SUBSET S /\ IsFiniteSet(C) /\ x \in C
  BY FS_Subset DEF Dated
<1>2. T \subseteq Nat /\ x.at \in T
  BY <1>1 DEF Dated
<1>3. IsFiniteSet(T)
  <2>1. f \in [C -> T] /\ \A t \in T : \E z \in C : f[z] = t
    <3> HIDE DEF C
    <3> QED
      OBVIOUS
  <2> HIDE DEF C, f, T
  <2> QED
    BY <1>1, <2>1, ImageIsFinite
<1>4. Max(T) \in T /\ \A t \in T : t <= Max(T)
  <2> HIDE DEF T
  <2> QED
    BY <1>2, <1>3, MaxIsThere
<1>5. PICK y \in C : y.at = Max(T)
  BY <1>4
<1>6. y \in S /\ With(y) = With(x) /\ \A z \in C : z.at <= y.at
  BY <1>4, <1>5
<1>7. y \in Tops(S)
  BY <1>6 DEF Tops
<1> QED
  BY <1>1, <1>6, <1>7

\* Two newest rows are of two conversations.
LEMMA TopsDiffer ==
    ASSUME NEW S, Dated(S), NEW x \in Tops(S), NEW y \in Tops(S), With(x) = With(y)
    PROVE  x = y
<1>1. x \in S /\ y \in S /\ x.at <= y.at /\ y.at <= x.at
  BY DEF Tops
<1> QED
  BY <1>1 DEF Dated

\* There are as many newest rows as conversations.
LEMMA TopsAreAsMany ==
    ASSUME NEW S, Dated(S)
    PROVE  Cardinality({With(r) : r \in S}) = Cardinality(Tops(S))
<1> DEFINE L == Tops(S)
           W == {With(r) : r \in S}
           f == [r \in L |-> With(r)]
<1>1. L \in SUBSET S /\ IsFiniteSet(L)
  BY FS_Subset DEF Tops, Dated
<1>2. f \in [L -> W]
  BY <1>1
<1>3. \A x, y \in L : f[x] = f[y] => x = y
  BY TopsDiffer
<1>4. \A w \in W : \E r \in L : f[r] = w
  <2>1. \A x \in S : \E r \in L : With(r) = With(x)
    BY TopIsThere
  <2> HIDE DEF L
  <2> QED
    BY <2>1
<1> HIDE DEF L, W, f
<1>5. f \in Bijection(L, W)
  BY <1>2, <1>3, <1>4 DEF Bijection, Injection, Surjection, IsInjective
<1>6. Cardinality(W) = Cardinality(L)
  BY <1>1, <1>5, FS_Bijection DEF ExistsBijection
<1> QED
  BY <1>6 DEF L, W

\* When rows are added, a row that is the newest of its conversation was so
\* before, and no fewer conversations are before it.
LEMMA TopsGrow ==
    ASSUME NEW S, NEW R, S \subseteq R, Dated(R), NEW r \in S, r \in Tops(R)
    PROVE  r \in Tops(S) /\ Before(Tops(S), r) <= Before(Tops(R), r)
<1> DEFINE N == {x \in Tops(S) : x.at > r.at}
           M == {x \in Tops(R) : x.at > r.at}
           g == [x \in N |-> CHOOSE y \in Tops(R) : With(y) = With(x) /\ x.at <= y.at]
<1>1. r \in Tops(S)
  BY DEF Tops
<1>2. Dated(S) /\ Dated(Tops(R)) /\ Tops(S) \subseteq R
  BY FS_Subset DEF Dated, Tops
<1>3. IsFiniteSet(M)
  BY <1>2, BeforeIsNumber
<1>4. ASSUME NEW x \in N
      PROVE  g[x] \in M /\ With(g[x]) = With(x)
  <2>1. x \in R
    BY <1>2
  <2>2. g[x] \in Tops(R) /\ With(g[x]) = With(x) /\ x.at <= g[x].at
    BY <2>1, TopIsThere
  <2>3. g[x].at \in Nat /\ x.at \in Nat /\ r.at \in Nat /\ x.at > r.at
    <3>1. g[x] \in R
      BY <2>2 DEF Tops
    <3> HIDE DEF g
    <3> QED
      BY <2>1, <3>1 DEF Dated
  <2> HIDE DEF g
  <2> QED
    BY <2>2, <2>3
<1>5. ASSUME NEW x \in N, NEW y \in N, g[x] = g[y]
      PROVE  x = y
  <2>1. With(x) = With(y)
    <3> HIDE DEF g, N
    <3> QED
      BY <1>4, <1>5
  <2> QED
    BY <1>2, <2>1, TopsDiffer
<1>6. g \in [N -> M]
  BY <1>4
<1> HIDE DEF g, N, M
<1>7. g \in Injection(N, M)
  BY <1>5, <1>6 DEF Injection, IsInjective
<1>8. Cardinality(N) <= Cardinality(M)
  BY <1>3, <1>7, FS_Injection
<1> QED
  BY <1>1, <1>8 DEF N, M, Before

LEMMA SelectionIsPart ==
    ASSUME NEW q, NEW S
    PROVE  Select(q, S) \subseteq S /\ (Dated(S) => Dated(Select(q, S)))
<1>1. Select(q, S) \in SUBSET S
  BY DEF Select, Tops
<1> HIDE DEF Select
<1> QED
  BY <1>1, FS_Subset DEF Dated

LEMMA SelectionGrows ==
    ASSUME NEW q, NEW S, NEW R, S \subseteq R, Dated(S), Dated(R), NEW r \in S, r \in Select(q, R)
    PROVE  /\ r \in Select(q, S)
           /\ Before(Select(q, S), r) <= Before(Select(q, R), r)
           /\ Before(Select(q, S), r) \in Nat /\ Before(Select(q, R), r) \in Nat
<1>1. Dated(Select(q, S)) /\ Dated(Select(q, R))
  BY SelectionIsPart
<1>2. Before(Select(q, S), r) \in Nat /\ Before(Select(q, R), r) \in Nat
  BY <1>1, BeforeIsNumber
<1>3. r \in Select(q, S) /\ Before(Select(q, S), r) <= Before(Select(q, R), r)
  <2>1. CASE q.kind = "conversations"
    BY <2>1, TopsGrow DEF Select
  <2>2. CASE q.kind # "conversations"
    <3>1. /\ Select(q, S) = {x \in S : Wanted(q, x)} /\ Select(q, R) = {x \in R : Wanted(q, x)}
      BY <2>2 DEF Select
    <3>2. Select(q, S) \subseteq Select(q, R) /\ r \in Select(q, S)
      BY <3>1
    <3> QED
      BY <1>1, <3>2, BeforeGrows
  <2> QED
    BY <2>1, <2>2
<1> QED
  BY <1>2, <1>3

\* Each stored row is in the conversation of one contact.
LEMMA OneConversation ==
    ASSUME Rows, NEW r \in Stored
    PROVE  \A l \in Link : r \in Conversation(l) <=> With(r) = l
<1>1. r \in rows /\ IsRow(r)
  BY DEF Stored, Rows
<1>2. \A l \in Link : l # None
  BY NoneAssumption
<1>3. \A l \in Link : l \in {r.from, r.to} <=> With(r) = l
  BY <1>1, <1>2 DEF IsRow, With
<1> QED
  BY <1>3 DEF Conversation

\* What the handlers answer with is a page of the selection, and what they
\* count is it.
LEMMA AnswersArePages ==
    ASSUME Rows, NEW q \in Query, NEW n
    PROVE  /\ Answer(q, n) = Page(Select(q, Stored), n)
           /\ q.kind # "key" => HowMany(q) = Cardinality(Select(q, Stored))
<1>1. Dated(Stored)
  BY StoredIsDated
<1>2. q.kind \in {"messages", "content", "key", "conversations", "conversation", "conversation content"}
  BY DEF Query, messageRoutes, conversationRoutes
<1>3. CASE q.kind = "messages"
  <2>1. Select(q, Stored) = Stored
    BY <1>3 DEF Select, Wanted
  <2> QED
    BY <1>3, <2>1 DEF Answer, Get, HowMany, Count
<1>4. CASE q.kind = "content"
  <2>1. Select(q, Stored) = ContentLike(q.pattern)
    BY <1>4 DEF Select, Wanted, ContentLike
  <2> QED
    BY <1>4, <2>1 DEF Answer, GetContentLike, HowMany, CountContentLike
<1>5. CASE q.kind = "key"
  <2>1. Select(q, Stored) = ContentKeyLike(q.pattern, q.column)
    BY <1>5 DEF Select, Wanted, ContentKeyLike
  <2> QED
    BY <1>5, <2>1 DEF Answer, GetContentKeyLike
<1>6. CASE q.kind = "conversations"
  <2>1. Select(q, Stored) = LatestMessagesForEachUser
    BY <1>6 DEF Select, Tops, LatestMessagesForEachUser
  <2>2. CountDistinctConversations = Cardinality(Select(q, Stored))
    BY <1>1, <1>6, TopsAreAsMany DEF Select, CountDistinctConversations
  <2> QED
    BY <1>6, <2>1, <2>2 DEF Answer, GetConversations, HowMany
<1>7. CASE q.kind = "conversation"
  <2>1. Select(q, Stored) = Conversation(q.link)
    BY <1>7 DEF Select, Wanted, Conversation
  <2> QED
    BY <1>7, <2>1 DEF Answer, GetConversation, HowMany, CountConversations,
         CountConversationsByMessagingProductContact
<1>8. CASE q.kind = "conversation content"
  <2>1. Select(q, Stored) = ConversationContentLike(q.link, q.pattern)
    BY <1>8 DEF Select, Wanted, ConversationContentLike, Conversation
  <2> QED
    BY <1>8, <2>1 DEF Answer, ConversationContentLikeByMessagingProductContact, HowMany,
         CountConversationContentLike
<1> QED
  BY <1>2, <1>3, <1>4, <1>5, <1>6, <1>7, <1>8

-----------------------------------------------------------------------------
(* What callbacks and clients have in common.                              *)

\* What a client has to hear of, or to read, when there is more to read.
LEMMA StoredGrows ==
    ASSUME InboxInv, UNCHANGED <<sockets, reading, deaf, lost>>, Rows', Stored \subseteq Stored',
           announce \subseteq announce', announce' \subseteq Stored', Stored' \ Stored \subseteq announce'
    PROVE  Channels' /\ Covered' /\ OnlyStored'
<1> USE DEF sockets, reading
<1>1. Channels'
  BY DEF InboxInv, Channels
<1>2. Covered'
  <2> SUFFICES ASSUME NEW k \in Client, Listens(k), NEW r \in Selection(k)', r \notin announce'
               PROVE  r \in seen[k] \/ OnTheWay(k, r)' \/ Unread(k, r)'
    BY DEF Covered, Listens, OnTheWay
  <2>1. r \in Stored /\ Dated(Stored) /\ Dated(Stored') /\ Selection(k)' = Select(page[k].query, Stored')
    BY StoredIsDated, SelectionIsPart DEF InboxInv, Selection
  <2>2. /\ r \in Selection(k)
        /\ Before(Selection(k), r) <= Before(Selection(k)', r)
        /\ Before(Selection(k), r) \in Nat /\ Before(Selection(k)', r) \in Nat
    <3> DEFINE q == page[k].query
    <3> HIDE DEF q
    <3>1. r \in Select(q, Stored) /\ Before(Select(q, Stored), r) <= Before(Select(q, Stored'), r)
          /\ Before(Select(q, Stored), r) \in Nat /\ Before(Select(q, Stored'), r) \in Nat
      BY <2>1, SelectionGrows DEF q
    <3> QED
      BY <2>1, <3>1 DEF q, Selection
  <2>3. r \in seen[k] \/ OnTheWay(k, r) \/ Unread(k, r)
    BY <2>2 DEF InboxInv, Covered
  <2>4. OnTheWay(k, r) => OnTheWay(k, r)'
    BY DEF OnTheWay
  <2>5. Unread(k, r) => Unread(k, r)'
    <3>1. page[k].asked * PageSize \in Nat
      BY InboxAssumption DEF InboxInv, Types
    <3> QED
      BY <2>2, <3>1 DEF Unread
  <2> QED
    BY <2>3, <2>4, <2>5
<1>3. OnlyStored'
  BY DEF InboxInv, OnlyStored
<1> QED
  BY <1>1, <1>2, <1>3

\* A step of sockets and pages.
LEMMA TablesStay ==
    ASSUME InboxInv, UNCHANGED <<link, rows, callback, work, known, silenced>>
    PROVE  Rows' /\ Handled' /\ Kept' /\ KnownLinked'
<1>1. \A tx : LinksSeenBy(tx)' = LinksSeenBy(tx)
  BY DEF LinksSeenBy
<1>2. Rows' /\ Handled'
  BY <1>1 DEF InboxInv, Rows, Handled
<1>3. Kept'
  BY DEF InboxInv, Kept, HasRow
<1>4. KnownLinked'
  BY <1>1 DEF InboxInv, KnownLinked, SplitOnlyByRace, InCallback
<1> QED
  BY <1>2, <1>3, <1>4
-----------------------------------------------------------------------------
(* Steps of callbacks.                                                     *)

LEMMA NoPageIsPage == NoPage.asked = 0 /\ ~NoPage.ended /\ NoPage.query \in Query
BY DEF NoPage, Query, messageRoutes

LEMMA InboxInit == Init => InboxInv
<1> SUFFICES ASSUME Init
             PROVE  InboxInv
  OBVIOUS
<1> USE DEF Init
<1>1. rows = {} /\ Stored = {} /\ \A k \in Client : page[k] = NoPage /\ client[k] = "off"
  BY DEF Stored
<1>2. Types
  BY NoPageIsPage, InboxAssumption DEF Types, NoWork
<1>3. Rows
  BY FS_EmptySet DEF Rows
<1>4. Handled /\ Kept /\ KnownLinked
  BY DEF Handled, Kept, KnownLinked, SplitOnlyByRace, InCallback, NoWork
<1>5. Channels /\ Covered /\ OnlyStored
  BY <1>1 DEF Channels, Covered, Listens, OnlyStored
<1> QED
  BY <1>2, <1>3, <1>4, <1>5 DEF InboxInv

\* The goroutine of a message goes on.
LEMMA WorkStep ==
    ASSUME InboxInv, NEW m \in Message, NEW j, work[m].at # "none",
           work' = [work EXCEPT ![m] = j], j.at \in {"link", "store", "done"},
           j.link \in Link \cup {None}, DOMAIN j = {"at", "link", "blocked"},
           j.at = "store" => j.link \in Link,
           j.at = "link" => sender[m] \notin known[CallbackOf(m)],
           j.at = "done" => m \in silenced' \/ HasRow(m, CallbackOf(m))',
           UNCHANGED <<callback, sending, announce, sockets, reading, bounds, known, deaf, lost>>,
           link' \in [Link -> LinkRow \cup {None}], LinksStay, Rows', Stored' = Stored,
           rows \subseteq rows', silenced \subseteq silenced'
    PROVE  InboxInv'
<1> USE DEF InboxInv
<1>1. work'[m] = j /\ DOMAIN work' = Message /\ \A n \in Message : n # m => work'[n] = work[n]
  BY DEF Types
<1>2. Types'
  BY <1>1 DEF Types, sockets, reading
<1>3. Handled'
  BY <1>1 DEF Handled
<1>4. Kept'
  <2>1. \A n, tx : HasRow(n, tx) => HasRow(n, tx)'
    BY DEF HasRow
  <2> QED
    BY <1>1, <2>1, OneCallback DEF Kept
<1>5. KnownLinked'
  <2>1. \A c \in Callback : \A n \in known[c] : \E l \in LinksSeenBy(None)' : link'[l].number = n
    BY SeenStay DEF KnownLinked
  <2>2. SplitOnlyByRace'
    BY <1>1 DEF KnownLinked, SplitOnlyByRace, InCallback
  <2> QED
    BY <2>1, <2>2 DEF KnownLinked
<1>6. Channels' /\ Covered' /\ OnlyStored'
  BY StoredGrows DEF OnlyStored
<1> QED
  BY <1>2, <1>3, <1>4, <1>5, <1>6

LEMMA LookKeeps ==
    ASSUME InboxInv, NEW m \in Message, Look(m)
    PROVE  InboxInv'
<1> DEFINE found == LinksOf(sender[m], CallbackOf(m))
           j == IF found = {} THEN [NoWork EXCEPT !.at = "link"]
                ELSE [at |-> "store", link |-> Min(found), blocked |-> link[Min(found)].blocked]
<1>1. /\ work[m].at = "look" /\ work' = [work EXCEPT ![m] = j]
      /\ UNCHANGED <<tables, callback, sending, announce, sockets, reading, bounds, history>>
  BY DEF Look, InCallback
<1>2. found \subseteq Link /\ found \subseteq Nat
  BY InboxAssumption DEF LinksOf, LinksSeenBy
<1>3. found # {} => Min(found) \in Link
  <2> HIDE DEF found
  <2> QED
    BY <1>2, MinIsThere
<1>4. found = {} => sender[m] \notin known[CallbackOf(m)]
  <2>1. \A l \in LinksSeenBy(None) : l \in LinksSeenBy(CallbackOf(m))
    BY DEF LinksSeenBy
  <2> QED
    BY <2>1, OneCallback DEF LinksOf, InboxInv, KnownLinked
<1>5. /\ j.at \in {"link", "store"} /\ j.link \in Link \cup {None}
      /\ DOMAIN j = {"at", "link", "blocked"} /\ (j.at = "store" => j.link \in Link)
      /\ (j.at = "link" => found = {})
  <2>1. CASE found = {}
    BY <2>1 DEF NoWork
  <2>2. CASE found # {}
    <3>1. j = [at |-> "store", link |-> Min(found), blocked |-> link[Min(found)].blocked]
      BY <2>2
    <3> HIDE DEF j, found
    <3> QED
      BY <1>3, <2>2, <3>1
  <2> QED
    BY <2>1, <2>2
<1> HIDE DEF j, found
<1>6. LinksStay /\ link' \in [Link -> LinkRow \cup {None}] /\ Stored' = Stored
      /\ rows \subseteq rows' /\ silenced \subseteq silenced' /\ known' = known /\ rows' = rows /\ deaf' = deaf /\ lost' = lost
  BY <1>1 DEF LinksStay, tables, history, Stored, InboxInv, Types
<1>7. Rows'
  BY <1>6, RowsStay DEF InboxInv
<1> QED
  BY <1>1, <1>4, <1>5, <1>6, <1>7, WorkStep

LEMMA CreateLinkKeeps ==
    ASSUME InboxInv, NEW m \in Message, CreateLink(m)
    PROVE  InboxInv'
<1>1. PICK l \in Link :
           /\ link[l] = None
           /\ link' = [link EXCEPT ![l] = NewLink(sender[m], CallbackOf(m))]
           /\ work' = [work EXCEPT ![m] = [NoWork EXCEPT !.at = "store", !.link = l]]
  BY DEF CreateLink, Unused
<1>2. /\ work[m].at = "link"
      /\ UNCHANGED <<rows, callback, sending, announce, sockets, reading, bounds, history>>
  BY DEF CreateLink, InCallback
<1> DEFINE j == [NoWork EXCEPT !.at = "store", !.link = l]
<1>3. j.at = "store" /\ j.link = l /\ DOMAIN j = {"at", "link", "blocked"}
  BY DEF NoWork
<1>4. LinksStay /\ link' \in [Link -> LinkRow \cup {None}]
  BY <1>1, OneCallback, NewLinkIsRow DEF LinksStay, InboxInv, Types
<1>5. Rows' /\ Stored' = Stored
  BY <1>2, <1>4, RowsStay DEF InboxInv, Stored
<1>6. work' = [work EXCEPT ![m] = j] /\ silenced \subseteq silenced' /\ known' = known /\ deaf' = deaf /\ lost' = lost
  BY <1>1, <1>2 DEF history
<1> HIDE DEF j
<1> QED
  BY <1>2, <1>3, <1>4, <1>5, <1>6, WorkStep

LEMMA StoreKeeps ==
    ASSUME InboxInv, NEW m \in Message, Store(m)
    PROVE  InboxInv'
<1> DEFINE c == CallbackOf(m)
           l == work[m].link
           r == Row(m, l, None, c)
           j == [work[m] EXCEPT !.at = "done"]
<1>1. /\ work[m].at = "store" /\ callback[c].at = "open"
      /\ rows' = rows \cup {r}
      /\ link' = [link EXCEPT ![l] = IF link[l] = None THEN NewLink(sender[m], c) ELSE link[l]]
      /\ work' = [work EXCEPT ![m] = j]
      /\ UNCHANGED <<callback, sending, announce, sockets, reading, bounds, history>>
      /\ link[l] # None => l \in LinksSeenBy(c)
  BY DEF Store, InCallback, InboxInv, Types
<1>2. c \in Callback /\ c # None /\ l \in Link /\ l # None
  BY <1>1, OneCallback, NoneAssumption DEF InboxInv, Handled
<1>3. j.at = "done" /\ j.link \in Link \cup {None} /\ DOMAIN j = {"at", "link", "blocked"}
  BY DEF InboxInv, Types
<1>4. /\ IsRow(r) /\ \A x \in rows : x.at < r.at
      /\ r.message = m /\ r.tx = c /\ r.from = l /\ r.to = None
  BY <1>2, NewRowIsLast DEF InboxInv
<1> HIDE DEF j, r
<1>5. LinksStay /\ link' \in [Link -> LinkRow \cup {None}]
  BY <1>1, <1>2, NewLinkIsRow DEF LinksStay, InboxInv, Types
<1>6. l \in LinksSeenBy(c)'
  <2>1. link'[l] = IF link[l] = None THEN NewLink(sender[m], c) ELSE link[l]
    BY <1>1, <1>2 DEF InboxInv, Types
  <2>2. link'[l] # None /\ link'[l].tx \in {None, c}
    <3>1. CASE link[l] = None
      <4>1. NewLink(sender[m], c) # None /\ NewLink(sender[m], c).tx = c
        BY <1>2, NewLinkIsRow
      <4>2. link'[l] = NewLink(sender[m], c)
        BY <2>1, <3>1
      <4> HIDE DEF l, c
      <4> QED
        BY <4>1, <4>2
    <3>2. CASE link[l] # None
      BY <1>1, <2>1, <3>2 DEF LinksSeenBy
    <3> QED
      BY <3>1, <3>2
  <2> QED
    BY <1>2, <2>2 DEF LinksSeenBy
<1>7. Rows'
  BY <1>1, <1>4, <1>5, <1>6, RowAdded DEF InboxInv
<1>8. Stored' = Stored
  BY <1>1, <1>2, <1>4 DEF Stored
<1>9. HasRow(m, c)'
  BY <1>1, <1>4 DEF HasRow
<1>10. silenced \subseteq silenced' /\ known' = known /\ deaf' = deaf /\ lost' = lost /\ rows \subseteq rows'
  BY <1>1 DEF history
<1> QED
  BY <1>1, <1>3, <1>5, <1>7, <1>8, <1>9, <1>10, WorkStep

LEMMA SilenceKeeps ==
    ASSUME InboxInv, NEW m \in Message, Silence(m)
    PROVE  InboxInv'
<1> DEFINE j == [work[m] EXCEPT !.at = "done"]
<1>1. /\ work[m].at = "store" /\ work' = [work EXCEPT ![m] = j]
      /\ silenced' = silenced \cup {m}
      /\ UNCHANGED <<tables, callback, sending, announce, sockets, reading, bounds, known, deaf, lost>>
  BY DEF Silence, InCallback, InboxInv, Types
<1>2. j.at = "done" /\ j.link \in Link \cup {None} /\ DOMAIN j = {"at", "link", "blocked"}
  BY DEF InboxInv, Types
<1> HIDE DEF j
<1>3. LinksStay /\ link' \in [Link -> LinkRow \cup {None}] /\ Stored' = Stored /\ rows' = rows
  BY <1>1 DEF LinksStay, tables, Stored, InboxInv, Types
<1>4. Rows'
  BY <1>3, RowsStay DEF InboxInv
<1> QED
  BY <1>1, <1>2, <1>3, <1>4, WorkStep

LEMMA ReceiveKeeps ==
    ASSUME InboxInv, NEW c \in Callback, Receive(c)
    PROVE  InboxInv'
<1> USE DEF InboxInv
<1>1. /\ callback[c].at = "sent" /\ callback[c].deliveries < MaxDeliveries
      /\ callback' = [callback EXCEPT ![c] = [at |-> "open", deliveries |-> @.deliveries + 1]]
      /\ work' = [m \in Message |-> IF m \in Batch[c] THEN [NoWork EXCEPT !.at = "look"]
                                                      ELSE work[m]]
      /\ known' = [known EXCEPT ![c] = {link[l].number : l \in LinksSeenBy(None)}]
      /\ UNCHANGED <<tables, sending, announce, sockets, reading, bounds, silenced, deaf, lost>>
  BY DEF Receive
<1>2. \A m \in Message : m \in Batch[c] <=> CallbackOf(m) = c
  BY OneCallback
<1>3. /\ callback'[c].at = "open" /\ \A d \in Callback : d # c => callback'[d] = callback[d]
      /\ \A m \in Message : CallbackOf(m) = c => work'[m].at = "look" /\ work'[m].link = None
      /\ \A m \in Message : CallbackOf(m) # c => work'[m] = work[m]
      /\ \A d \in Callback : d # c => known'[d] = known[d]
      /\ known'[c] = {link[l].number : l \in LinksSeenBy(None)}
  BY <1>1, <1>2 DEF Types, NoWork
<1>4. Types'
  <2>1. callback'[c].deliveries \in 0..MaxDeliveries /\ DOMAIN callback'[c] = {"at", "deliveries"}
    BY <1>1, InboxAssumption DEF Types
  <2>2. \A m \in Message : CallbackOf(m) = c => DOMAIN work'[m] = {"at", "link", "blocked"}
    BY <1>1, <1>2 DEF NoWork
  <2>3. DOMAIN callback' = Callback /\ DOMAIN work' = Message /\ DOMAIN known' = Callback
    BY <1>1 DEF Types
  <2> QED
    BY <1>1, <1>3, <2>1, <2>2, <2>3 DEF Types, tables, sockets, reading
<1>5. LinksStay /\ rows' = rows /\ Stored' = Stored /\ announce' = announce
  BY <1>1 DEF LinksStay, tables, Stored
<1>6. Rows'
  BY <1>5, RowsStay
<1>7. Handled'
  BY <1>3, OneCallback DEF Handled
<1>8. Kept'
  <2>1. \A n, tx : HasRow(n, tx) => HasRow(n, tx)'
    BY <1>5 DEF HasRow
  <2> QED
    BY <1>1, <1>3, <2>1, OneCallback DEF Kept
<1>9. KnownLinked'
  <2>1. /\ LinksSeenBy(None) \subseteq LinksSeenBy(None)'
        /\ \A l \in LinksSeenBy(None) : link'[l].number = link[l].number
    BY <1>5, SeenStay
  <2>2. ASSUME NEW d \in Callback, NEW n \in known'[d]
        PROVE  \E l \in LinksSeenBy(None)' : link'[l].number = n
    <3>1. \E l \in LinksSeenBy(None) : link[l].number = n
      BY <1>3, <2>2 DEF KnownLinked
    <3> QED
      BY <2>1, <3>1
  <2>3. SplitOnlyByRace'
    BY <1>3, OneCallback DEF KnownLinked, SplitOnlyByRace, InCallback
  <2> QED
    BY <2>2, <2>3 DEF KnownLinked
<1>10. Channels' /\ Covered' /\ OnlyStored'
  BY <1>1, <1>5, <1>6, StoredGrows DEF OnlyStored
<1> QED
  BY <1>4, <1>6, <1>7, <1>8, <1>9, <1>10

LEMMA AnswerLostKeeps ==
    ASSUME InboxInv, NEW c \in Callback, AnswerLost(c)
    PROVE  InboxInv'
<1> USE DEF InboxInv
<1>1. /\ callback[c].at = "answered"
      /\ callback' = [callback EXCEPT ![c].at = "sent"]
      /\ UNCHANGED <<tables, work, sending, announce, sockets, reading, history>>
  BY DEF AnswerLost
<1>2. /\ callback'[c].at = "sent" /\ callback'[c].deliveries = callback[c].deliveries
      /\ DOMAIN callback'[c] = {"at", "deliveries"} /\ DOMAIN callback' = Callback
      /\ \A d \in Callback : d # c => callback'[d] = callback[d]
  BY <1>1 DEF Types
<1>3. Types'
  BY <1>1, <1>2 DEF Types, tables, sockets, reading, history
<1>4. LinksStay /\ rows' = rows /\ Stored' = Stored
  BY <1>1 DEF LinksStay, tables, Stored
<1>5. Rows'
  BY <1>4, RowsStay
<1>6. Handled'
  BY <1>1, <1>2, OneCallback DEF Handled
<1>7. Kept'
  BY <1>1, <1>2, <1>4 DEF Kept, HasRow, history
<1>8. KnownLinked'
  <2>1. \A c1 \in Callback : \A n \in known[c1] : \E l \in LinksSeenBy(None)' : link'[l].number = n
    BY <1>4, SeenStay DEF KnownLinked
  <2>2. SplitOnlyByRace'
    BY <1>1, <1>2, OneCallback DEF KnownLinked, SplitOnlyByRace, InCallback, history
  <2> QED
    BY <1>1, <2>1, <2>2 DEF KnownLinked, history
<1>9. Channels' /\ Covered' /\ OnlyStored'
  BY <1>1, <1>4, <1>5, StoredGrows DEF OnlyStored, history
<1> QED
  BY <1>3, <1>5, <1>6, <1>7, <1>8, <1>9

\* What others have written does not refer to what is rolled back.
LEMMA CallbackFailsKeeps ==
    ASSUME InboxInv, NEW c \in Callback, CallbackFails(c)
    PROVE  InboxInv'
<1> USE DEF InboxInv
<1>1. /\ callback[c].at = "open" /\ callback' = [callback EXCEPT ![c].at = "sent"]
      /\ link' = [l \in Link |-> IF link[l] # None /\ link[l].tx = c THEN None ELSE link[l]]
      /\ rows' = {r \in rows : r.tx # c}
      /\ work' = [m \in Message |-> IF m \in Batch[c] THEN NoWork ELSE work[m]]
      /\ silenced' = silenced \ Batch[c]
      /\ UNCHANGED <<sending, announce, sockets, reading, known, deaf, lost>>
  BY DEF CallbackFails, Forget
<1>2. /\ callback'[c].at = "sent" /\ callback'[c].deliveries = callback[c].deliveries
      /\ DOMAIN callback'[c] = {"at", "deliveries"} /\ DOMAIN callback' = Callback
      /\ \A d \in Callback : d # c => callback'[d] = callback[d]
  BY <1>1 DEF Types
<1>3. /\ \A m \in Message : CallbackOf(m) = c => work'[m] = NoWork
      /\ \A m \in Message : CallbackOf(m) # c => work'[m] = work[m]
  BY <1>1, OneCallback
<1>4. c # None
  BY NoneAssumption
<1>5. \A tx : tx # c => /\ LinksSeenBy(tx)' = LinksSeenBy(tx)
                        /\ \A l \in LinksSeenBy(tx) : link'[l] = link[l]
  BY <1>1, <1>4 DEF LinksSeenBy
<1>6. Types'
  BY <1>1, <1>2, <1>3 DEF Types, sockets, reading, NoWork
<1>7. Rows'
  <2>1. rows' \in SUBSET rows
    BY <1>1
  <2>2. IsFiniteSet(rows')
    BY <2>1, FS_Subset DEF Rows
  <2> QED
    BY <1>1, <1>5, <2>2 DEF Rows
<1>8. Handled'
  BY <1>2, <1>3, OneCallback DEF Handled, NoWork
<1>9. Kept'
  <2>1. \A n, tx : HasRow(n, tx) /\ tx # c => HasRow(n, tx)'
    BY <1>1 DEF HasRow
  <2>2. \A d \in Callback : \A m \in Batch[d] :
          d # c => work'[m] = work[m] /\ (m \in silenced => m \in silenced')
    BY <1>1, <1>3, OneCallback
  <2> QED
    BY <1>2, <1>4, <2>1, <2>2 DEF Kept
<1>10. KnownLinked'
  <2>1. ASSUME NEW d \in Callback, NEW n \in known'[d]
        PROVE  \E l \in LinksSeenBy(None)' : link'[l].number = n
    <3>1. PICK l \in LinksSeenBy(None) : link[l].number = n
      BY <1>1, <2>1 DEF KnownLinked
    <3>2. l \in LinksSeenBy(None)' /\ link'[l] = link[l]
      BY <1>4, <1>5, <3>1
    <3> QED
      BY <3>1, <3>2
  <2>2. SplitOnlyByRace'
    BY <1>1, <1>2, <1>3, OneCallback, SMTT(30)
       DEF KnownLinked, SplitOnlyByRace, InCallback, NoWork
  <2> QED
    BY <2>1, <2>2 DEF KnownLinked
<1>11. Stored' = Stored
  BY <1>1, <1>4 DEF Stored
<1>12. Channels' /\ Covered' /\ OnlyStored'
  BY <1>1, <1>7, <1>11, StoredGrows DEF OnlyStored
<1> QED
  BY <1>6, <1>7, <1>8, <1>9, <1>10, <1>12

LEMMA CommitKeeps ==
    ASSUME InboxInv, NEW c \in Callback, Commit(c)
    PROVE  InboxInv'
<1> USE DEF InboxInv
<1> DEFINE mine == {r \in rows : r.tx = c}
           done == {[r EXCEPT !.tx = None] : r \in mine}
<1>1. /\ callback[c].at = "open" /\ \A m \in Batch[c] : work[m].at = "done"
      /\ rows' = (rows \ mine) \cup done
      /\ announce' = announce \cup done
      /\ link' = [l \in Link |-> IF link[l] # None /\ link[l].tx = c
                                 THEN [link[l] EXCEPT !.tx = None] ELSE link[l]]
      /\ work' = [m \in Message |-> IF m \in Batch[c] THEN NoWork ELSE work[m]]
      /\ callback' = [callback EXCEPT ![c].at = "answered"]
      /\ UNCHANGED <<sending, sockets, reading, bounds, history>>
  BY DEF Commit
<1>2. /\ callback'[c].at = "answered" /\ callback'[c].deliveries = callback[c].deliveries
      /\ DOMAIN callback'[c] = {"at", "deliveries"} /\ DOMAIN callback' = Callback
      /\ \A d \in Callback : d # c => callback'[d] = callback[d]
  BY <1>1 DEF Types
<1>3. /\ \A m \in Message : CallbackOf(m) = c => work'[m] = NoWork
      /\ \A m \in Message : CallbackOf(m) # c => work'[m] = work[m]
  BY <1>1, OneCallback
<1>4. c # None /\ known' = known /\ silenced' = silenced /\ deaf' = deaf /\ lost' = lost
  BY <1>1, NoneAssumption DEF history
<1>5. \A l \in Link : link[l] # None =>
        /\ link'[l] \in LinkRow /\ link'[l] # None /\ link'[l].number = link[l].number
        /\ link'[l].tx = IF link[l].tx = c THEN None ELSE link[l].tx
  <2> SUFFICES ASSUME NEW l \in Link, link[l] # None
               PROVE  /\ link'[l] \in LinkRow /\ link'[l].number = link[l].number
                      /\ link'[l].tx = IF link[l].tx = c THEN None ELSE link[l].tx
    BY NoneAssumption
  <2>1. link[l] \in LinkRow
    BY DEF Types
  <2>2. CASE link[l].tx = c
    <3>1. link'[l] = [link[l] EXCEPT !.tx = None]
      BY <1>1, <2>2
    <3> QED
      BY <2>1, <2>2, <3>1 DEF LinkRow
  <2>3. CASE link[l].tx # c
    BY <1>1, <2>1, <2>3
  <2> QED
    BY <2>2, <2>3
<1>6. \A l \in Link : link[l] = None => link'[l] = None
  BY <1>1
<1>7. link' \in [Link -> LinkRow \cup {None}]
  BY <1>1, <1>5, <1>6
<1>8. /\ \A tx : tx # c => LinksSeenBy(tx) \subseteq LinksSeenBy(tx)'
      /\ LinksSeenBy(c) \subseteq LinksSeenBy(None)'
  BY <1>4, <1>5 DEF LinksSeenBy
<1>9. Types'
  BY <1>1, <1>2, <1>3, <1>4, <1>7 DEF Types, sockets, reading, NoWork
<1>10. \A r \in mine : /\ [r EXCEPT !.tx = None].tx = None
                       /\ [r EXCEPT !.tx = None].at = r.at
                       /\ [r EXCEPT !.tx = None].message = r.message
                       /\ [r EXCEPT !.tx = None].from = r.from
                       /\ [r EXCEPT !.tx = None].to = r.to
  BY DEF Rows, IsRow
<1>11. Rows'
  <2>1. IsFiniteSet(rows')
    <3> DEFINE f == [r \in mine |-> [r EXCEPT !.tx = None]]
    <3>1. f \in [mine -> done] /\ \A t \in done : \E r \in mine : f[r] = t
      OBVIOUS
    <3>2. mine \in SUBSET rows /\ (rows \ mine) \in SUBSET rows
      OBVIOUS
    <3> HIDE DEF f, mine, done
    <3>3. IsFiniteSet(mine) /\ IsFiniteSet(rows \ mine)
      BY <3>2, FS_Subset DEF Rows
    <3>4. IsFiniteSet(done)
      BY <3>1, <3>3, ImageIsFinite
    <3> QED
      BY <1>1, <3>3, <3>4, FS_Union
  <2>2. ASSUME NEW x \in rows'
        PROVE  \E r \in rows : /\ x.at = r.at /\ x.message = r.message
                               /\ x.from = r.from /\ x.to = r.to
                               /\ IF r.tx = c THEN x = [r EXCEPT !.tx = None] /\ x.tx = None ELSE x = r
    <3>1. CASE x \in rows \ mine
      BY <3>1
    <3>2. CASE x \in done
      <4>1. PICK r \in mine : x = [r EXCEPT !.tx = None]
        BY <3>2
      <4>2. r \in rows /\ r.tx = c
        OBVIOUS
      <4> HIDE DEF mine, done
      <4> QED
        BY <1>10, <4>1, <4>2
    <3> QED
      BY <1>1, <3>1, <3>2
  <2>3. ASSUME NEW x \in rows'
        PROVE  IsRow(x) /\ \E l \in LinksSeenBy(x.tx)' : l \in {x.from, x.to}
    <3>1. PICK r \in rows : /\ x.at = r.at /\ x.message = r.message
                            /\ x.from = r.from /\ x.to = r.to
                            /\ IF r.tx = c THEN x = [r EXCEPT !.tx = None] /\ x.tx = None ELSE x = r
      BY <2>2
    <3>2. IsRow(r) /\ x.tx = IF r.tx = c THEN None ELSE r.tx
      BY <3>1 DEF Rows
    <3>3. PICK l \in LinksSeenBy(r.tx) : l \in {r.from, r.to}
      BY DEF Rows
    <3>4. l \in LinksSeenBy(x.tx)'
      BY <1>8, <3>2, <3>3
    <3>5. IsRow(x)
      BY <3>1, <3>2 DEF IsRow
    <3> QED
      BY <3>1, <3>3, <3>4, <3>5
  <2>4. ASSUME NEW x \in rows', NEW y \in rows', x.at = y.at
        PROVE  x = y
    <3>1. PICK r \in rows : x.at = r.at /\ IF r.tx = c THEN x = [r EXCEPT !.tx = None] ELSE x = r
      BY <2>2
    <3>2. PICK s \in rows : y.at = s.at /\ IF s.tx = c THEN y = [s EXCEPT !.tx = None] ELSE y = s
      BY <2>2
    <3>3. r = s
      BY <2>4, <3>1, <3>2 DEF Rows
    <3> QED
      BY <3>1, <3>2, <3>3
  <2> QED
    BY <2>1, <2>3, <2>4 DEF Rows
<1>12. Handled'
  BY <1>2, <1>3, OneCallback DEF Handled, NoWork
<1>13. Kept'
  <2>1. \A n : HasRow(n, c) => HasRow(n, None)'
    <3> SUFFICES ASSUME NEW n, HasRow(n, c)
                 PROVE  HasRow(n, None)'
      OBVIOUS
    <3>1. PICK r \in mine : r.message = n
      BY DEF HasRow
    <3>2. [r EXCEPT !.tx = None] \in done
      OBVIOUS
    <3> HIDE DEF mine, done
    <3> QED
      BY <1>1, <1>10, <3>1, <3>2 DEF HasRow
  <2>2. \A n, tx : tx # c /\ HasRow(n, tx) => HasRow(n, tx)'
    BY <1>1 DEF HasRow
  <2>3. \A m \in Batch[c] : m \in silenced' \/ HasRow(m, None)'
    BY <1>1, <1>4, <2>1 DEF Kept
  <2>4. \A d \in Callback : \A m \in Batch[d] : d # c => work'[m] = work[m]
    BY <1>3, OneCallback
  <2> QED
    BY <1>2, <1>4, <2>2, <2>3, <2>4 DEF Kept
<1>14. KnownLinked'
  <2>1. ASSUME NEW d \in Callback, NEW n \in known'[d]
        PROVE  \E l \in LinksSeenBy(None)' : link'[l].number = n
    <3>1. PICK l \in LinksSeenBy(None) : link[l].number = n
      BY <1>4, <2>1 DEF KnownLinked
    <3>2. l \in LinksSeenBy(None)' /\ l \in Link /\ link[l] # None
      BY <1>4, <1>8 DEF LinksSeenBy
    <3> QED
      BY <1>5, <3>1, <3>2
  <2>2. SplitOnlyByRace'
    BY <1>2, <1>3, <1>4, OneCallback DEF KnownLinked, SplitOnlyByRace, InCallback, NoWork
  <2> QED
    BY <2>1, <2>2 DEF KnownLinked
<1>15. Stored' = Stored \cup done
  <2>1. \A x \in done : x.tx = None
    <3> SUFFICES ASSUME NEW r \in mine
                 PROVE  [r EXCEPT !.tx = None].tx = None
      OBVIOUS
    <3> QED
      BY <1>10
  <2>2. \A x \in mine : x.tx = c
    OBVIOUS
  <2> HIDE DEF mine, done
  <2> QED
    BY <1>1, <1>4, <2>1, <2>2 DEF Stored
<1>16. Channels' /\ Covered' /\ OnlyStored'
  <2> HIDE DEF done
  <2> QED
    BY <1>1, <1>4, <1>11, <1>15, StoredGrows DEF OnlyStored
<1> QED
  BY <1>9, <1>11, <1>12, <1>13, <1>14, <1>16
-----------------------------------------------------------------------------
(* Steps of operators.                                                     *)

LEMMA OperatorStep ==
    ASSUME InboxInv, UNCHANGED <<callback, work, sockets, reading, history>>,
           link' \in [Link -> LinkRow \cup {None}], LinksStay, Rows', rows \subseteq rows',
           Stored \subseteq Stored', announce \subseteq announce', announce' \subseteq Stored',
           Stored' \ Stored \subseteq announce',
           \A x \in sending' : x.link \in Link /\ x.read \in LinkRow /\ x.read.tx = None
    PROVE  InboxInv'
<1> USE DEF InboxInv
<1>1. Types'
  BY DEF Types, sockets, reading, history
<1>2. Handled'
  BY DEF Handled
<1>3. Kept'
  <2>1. \A n, tx : HasRow(n, tx) => HasRow(n, tx)'
    BY DEF HasRow
  <2> QED
    BY <2>1 DEF Kept, history
<1>4. KnownLinked'
  <2>1. \A c \in Callback : \A n \in known[c] : \E l \in LinksSeenBy(None)' : link'[l].number = n
    BY SeenStay DEF KnownLinked
  <2>2. SplitOnlyByRace'
    BY DEF KnownLinked, SplitOnlyByRace, InCallback, history
  <2> QED
    BY <2>1, <2>2 DEF KnownLinked, history
<1>5. Channels' /\ Covered' /\ OnlyStored'
  BY StoredGrows DEF history
<1> QED
  BY <1>1, <1>2, <1>3, <1>4, <1>5

\* A step of the links, with the same rows.
LEMMA LinkStep ==
    ASSUME InboxInv, UNCHANGED <<rows, calls, sockets, reading, history>>,
           link' \in [Link -> LinkRow \cup {None}], LinksStay
    PROVE  InboxInv'
<1>1. Rows' /\ Stored' = Stored
  BY RowsStay DEF InboxInv, Stored
<1> QED
  BY <1>1, OperatorStep DEF calls, InboxInv, OnlyStored, Types

LEMMA SetBlockedKeeps ==
    ASSUME InboxInv, NEW l \in Link, NEW b \in BOOLEAN, SetBlocked(l, b)
    PROVE  InboxInv'
<1>1. /\ link' = [link EXCEPT ![l].blocked = b] /\ l \in LinksSeenBy(None)
      /\ UNCHANGED <<rows, calls, sockets, reading, history>>
  BY DEF SetBlocked, GetWhatsAppContact
<1>2. link[l] \in LinkRow
  BY <1>1 DEF InboxInv, Types, LinksSeenBy
<1> DEFINE r == [link[l] EXCEPT !.blocked = b]
<1>3. r \in LinkRow /\ r # None
  <2>1. r \in LinkRow
    BY <1>2 DEF LinkRow
  <2> HIDE DEF r
  <2> QED
    BY <2>1, NoneAssumption
<1>4. r.number = link[l].number /\ r.tx = link[l].tx
  BY <1>2 DEF LinkRow
<1>5. link' = [link EXCEPT ![l] = r]
  BY <1>1
<1> HIDE DEF r
<1>6. LinksStay /\ link' \in [Link -> LinkRow \cup {None}]
  BY <1>3, <1>4, <1>5 DEF LinksStay, InboxInv, Types
<1> QED
  BY <1>1, <1>6, LinkStep

LEMMA LinkByHandKeeps ==
    ASSUME InboxInv, NEW m \in Message, LinkByHand(sender[m])
    PROVE  InboxInv'
<1>1. PICK l \in Link : link[l] = None /\ link' = [link EXCEPT ![l] = NewLink(sender[m], None)]
  BY DEF LinkByHand, Unused
<1>2. UNCHANGED <<rows, calls, sockets, reading, history>>
  BY DEF LinkByHand
<1>3. LinksStay /\ link' \in [Link -> LinkRow \cup {None}]
  BY <1>1, NewLinkIsRow DEF LinksStay, InboxInv, Types
<1> QED
  BY <1>2, <1>3, LinkStep

LEMMA DeleteContactKeeps ==
    ASSUME InboxInv, NEW l \in Link, DeleteContact(l)
    PROVE  InboxInv'
<1> USE DEF InboxInv
<1>1. /\ l \in LinksSeenBy(None) /\ \A r \in rows : l \notin {r.from, r.to}
      /\ link' = [link EXCEPT ![l] = None]
      /\ known' = [c \in Callback |-> known[c] \ {link[l].number}]
      /\ UNCHANGED <<rows, calls, sockets, reading, silenced, deaf, lost>>
  BY DEF DeleteContact, GetWhatsAppContact
<1>2. /\ link'[l] = None /\ \A k \in Link : k # l => link'[k] = link[k]
      /\ link' \in [Link -> LinkRow \cup {None}]
  BY <1>1 DEF Types
<1>3. \A tx : \A k \in LinksSeenBy(tx) : k # l => k \in LinksSeenBy(tx)' /\ link'[k] = link[k]
  BY <1>2 DEF LinksSeenBy
<1>4. UNCHANGED <<callback, work, sending, announce>> /\ Stored' = Stored
  BY <1>1 DEF calls, Stored
<1>5. Types'
  BY <1>1, <1>2, <1>4 DEF Types, sockets, reading
<1>6. Rows'
  BY <1>1, <1>3 DEF Rows
<1>7. Handled' /\ Kept'
  BY <1>1, <1>4 DEF Handled, Kept, HasRow
<1>8. KnownLinked'
  <2>1. ASSUME NEW c \in Callback, NEW n \in known'[c]
        PROVE  \E k \in LinksSeenBy(None)' : link'[k].number = n
    <3>1. n \in known[c] /\ n # link[l].number
      BY <1>1, <2>1
    <3>2. PICK k \in LinksSeenBy(None) : link[k].number = n
      BY <3>1 DEF KnownLinked
    <3> QED
      BY <1>3, <3>1, <3>2
  <2>2. SplitOnlyByRace'
    BY <1>1, <1>4, OneCallback DEF KnownLinked, SplitOnlyByRace, InCallback
  <2> QED
    BY <2>1, <2>2 DEF KnownLinked
<1>9. Channels' /\ Covered' /\ OnlyStored'
  BY <1>1, <1>4, <1>6, StoredGrows DEF OnlyStored
<1> QED
  BY <1>5, <1>6, <1>7, <1>8, <1>9

LEMMA SendKeeps ==
    ASSUME InboxInv, NEW l \in Link, SendWhatsAppMessage(l)
    PROVE  InboxInv'
<1> DEFINE x == [request |-> requests, link |-> l, read |-> link[l]]
<1>1. /\ l \in LinksSeenBy(None) /\ sending' = sending \cup {x}
      /\ UNCHANGED <<tables, callback, work, announce, sockets, reading, history>>
  BY DEF SendWhatsAppMessage, GetWhatsAppContact
<1>2. x.link \in Link /\ x.read \in LinkRow /\ x.read.tx = None
  BY <1>1 DEF LinksSeenBy, InboxInv, Types
<1> HIDE DEF x
<1>3. \A y \in sending' : y.link \in Link /\ y.read \in LinkRow /\ y.read.tx = None
  BY <1>1, <1>2 DEF InboxInv, Types
<1>4. LinksStay /\ link' \in [Link -> LinkRow \cup {None}] /\ rows' = rows /\ Stored' = Stored
  BY <1>1 DEF LinksStay, tables, Stored, InboxInv, Types
<1>5. Rows'
  BY <1>4, RowsStay DEF InboxInv
<1> QED
  BY <1>1, <1>3, <1>4, <1>5, OperatorStep DEF InboxInv, OnlyStored

LEMMA SendFailsKeeps ==
    ASSUME InboxInv, NEW x \in sending, SendFails(x)
    PROVE  InboxInv'
<1>1. /\ sending' = sending \ {x}
      /\ UNCHANGED <<tables, callback, work, announce, sockets, reading, history>>
  BY DEF SendFails
<1>2. LinksStay /\ link' \in [Link -> LinkRow \cup {None}] /\ rows' = rows /\ Stored' = Stored
  BY <1>1 DEF LinksStay, tables, Stored, InboxInv, Types
<1>3. Rows'
  BY <1>2, RowsStay DEF InboxInv
<1>4. \A y \in sending' : y.link \in Link /\ y.read \in LinkRow /\ y.read.tx = None
  BY <1>1 DEF InboxInv, Types
<1> QED
  BY <1>1, <1>2, <1>3, <1>4, OperatorStep DEF InboxInv, OnlyStored

\* The link that was read is there, or comes back as it was.
LEMMA SaveSentKeeps ==
    ASSUME InboxInv, NEW x \in sending, SaveSent(x)
    PROVE  InboxInv'
<1> DEFINE l == x.link
           r == Row(None, None, l, None)
<1>1. /\ link[l] # None => l \in LinksSeenBy(None)
      /\ link' = [link EXCEPT ![l] = IF link[l] = None THEN x.read ELSE link[l]]
      /\ rows' = rows \cup {r} /\ announce' = announce \cup {r} /\ sending' = sending \ {x}
      /\ UNCHANGED <<callback, work, sockets, reading, history>>
  BY DEF SaveSent, GetWhatsAppContact, InboxInv, Types
<1>2. l \in Link /\ x.read \in LinkRow /\ x.read.tx = None /\ x.read # None
  BY NoneAssumption DEF InboxInv, Types
<1>3. /\ IsRow(r) /\ \A y \in rows : y.at < r.at
      /\ r.tx = None /\ r.from = None /\ r.to = l
  BY <1>2, NewRowIsLast, NoneAssumption DEF InboxInv
<1> HIDE DEF r, l
<1>4. /\ link' \in [Link -> LinkRow \cup {None}]
      /\ link'[l] = IF link[l] = None THEN x.read ELSE link[l]
      /\ \A k \in Link : k # l => link'[k] = link[k]
  BY <1>1, <1>2 DEF InboxInv, Types
<1>5. LinksStay /\ l \in LinksSeenBy(None)'
  BY <1>1, <1>2, <1>4 DEF LinksStay, LinksSeenBy
<1>6. Rows'
  BY <1>1, <1>3, <1>5, RowAdded DEF InboxInv
<1>7. Stored' = Stored \cup {r}
  BY <1>1, <1>3 DEF Stored
<1>8. \A y \in sending' : y.link \in Link /\ y.read \in LinkRow /\ y.read.tx = None
  BY <1>1 DEF InboxInv, Types
<1> QED
  BY <1>1, <1>4, <1>5, <1>6, <1>7, <1>8, OperatorStep DEF InboxInv, OnlyStored
-----------------------------------------------------------------------------
(* Steps of clients.                                                       *)

\* Tables stay, so that a step has to keep only what clients have and hear.
LEMMA ClientStep ==
    ASSUME InboxInv, UNCHANGED <<link, rows, callback, work, sending, known, silenced>>,
           client' \in [Client -> {"off", "joining", "on", "leaving"}],
           clients' \in [Instance -> SUBSET Client], subscribed' \subseteq Instance,
           \A k \in Client : page'[k].asked \in Nat /\ page'[k].query \in Query, DOMAIN page' = Client, DOMAIN seen' = Client,
           Channels', Covered', OnlyStored'
    PROVE  InboxInv'
<1>1. Types'
  BY DEF InboxInv, Types
<1> QED
  BY <1>1, TablesStay DEF InboxInv

\* A client that has read nothing has everything still to read.
LEMMA NewReader ==
    ASSUME InboxInv, NEW k \in Client, page'[k] = NoPage, Stored' = Stored
    PROVE  \A r \in Selection(k)' : Unread(k, r)'
<1>1. Selection(k)' = Select(NoPage.query, Stored)
  BY DEF Selection
<1>2. Dated(Select(NoPage.query, Stored))
  BY StoredIsDated, SelectionIsPart DEF InboxInv
<1>3. \A r : Before(Select(NoPage.query, Stored), r) \in Nat
  BY <1>2, BeforeIsNumber
<1> QED
  BY <1>1, <1>3, NoPageIsPage, InboxAssumption DEF Unread

LEMMA AppendKeeps ==
    ASSUME InboxInv, NEW k \in Client, AppendClient(k)
    PROVE  InboxInv'
<1> USE DEF InboxInv
<1> DEFINE next == IF Shared /\ clients[home[k]] = {} THEN "joining" ELSE "on"
<1>1. /\ client[k] = "off" /\ ~Busy(home[k])
      /\ clients' = [clients EXCEPT ![home[k]] = @ \cup {k}]
      /\ client' = [client EXCEPT ![k] = next]
      /\ UNCHANGED <<tables, calls, subscribed, wire, reading, history>>
  BY DEF AppendClient
<1>2. home[k] \in Instance
  BY InboxAssumption
<1>3. /\ next \in {"joining", "on"} /\ (next = "joining" => clients[home[k]] = {})
      /\ Shared /\ next = "on" => clients[home[k]] # {}
  OBVIOUS
<1> HIDE DEF next
<1>4. /\ client'[k] = next /\ \A y \in Client : y # k => client'[y] = client[y]
      /\ clients'[home[k]] = clients[home[k]] \cup {k}
      /\ \A i \in Instance : i # home[k] => clients'[i] = clients[i]
      /\ client' \in [Client -> {"off", "joining", "on", "leaving"}]
      /\ clients' \in [Instance -> SUBSET Client]
  BY <1>1, <1>2, <1>3 DEF Types
<1>5. /\ UNCHANGED <<link, rows, callback, work, sending, known, silenced>>
      /\ UNCHANGED <<announce, subscribed, wire, page, seen, deaf, lost>> /\ Stored' = Stored
  BY <1>1 DEF tables, calls, reading, history, Stored
<1>6. page[k] = NoPage
  BY <1>1 DEF Channels
<1>7. Channels'
  <2>1. \A y \in Client : y # k /\ home[y] = home[k] => client[y] \notin {"joining", "leaving"}
    BY <1>1 DEF Busy
  <2>2. \A y \in Client : home[y] \in Instance
    BY InboxAssumption
  <2>3. \A y \in Client, i \in Instance :
          (y \in clients'[i]) <=> (home[y] = i /\ client'[y] \in {"joining", "on"})
    BY <1>1, <1>2, <1>3, <1>4 DEF Channels
  <2>4. \A y \in Client : client'[y] = "joining" => clients'[home[y]] = {y}
    BY <1>3, <1>4, <2>1, <2>2 DEF Channels
  <2>5. \A y \in Client : client'[y] = "leaving" => clients'[home[y]] = {}
    BY <1>3, <1>4, <2>1, <2>2 DEF Channels
  <2>6. \A y \in Client : client'[y] # "on" => page'[y] = NoPage
    BY <1>4, <1>5, <1>6 DEF Channels
  <2>7. \A y \in Client : Shared /\ client'[y] = "on" => home[y] \in subscribed' \cup deaf'
    <3>1. Shared /\ client'[k] = "on" => \E y \in Client : y \in clients[home[k]]
      BY <1>2, <1>3, <1>4 DEF Types
    <3>2. ASSUME Shared, NEW y \in Client, y \in clients[home[k]]
          PROVE  home[k] \in subscribed \cup deaf
      <4>1. home[y] = home[k] /\ client[y] \in {"joining", "on"}
        BY <1>2, <3>2 DEF Channels
      <4>2. y # k
        BY <1>1, <4>1
      <4> QED
        BY <2>1, <3>2, <4>1, <4>2 DEF Channels
    <3> QED
      BY <1>4, <1>5, <3>1, <3>2 DEF Channels
  <2> QED
    BY <2>3, <2>4, <2>5, <2>6, <2>7 DEF Channels
<1>8. Covered'
  <2>2. \A r \in Selection(k)' : Unread(k, r)'
    BY <1>5, <1>6, NewReader
  <2>3. ASSUME NEW y \in Client, y # k, Listens(y)', NEW r \in Selection(y)'
        PROVE  r \in seen'[y] \/ OnTheWay(y, r)' \/ Unread(y, r)'
    <3>1. Listens(y)
      BY <1>4, <1>5, <2>3 DEF Listens
    <3> QED
      BY <1>5, <3>1 DEF Covered, OnTheWay, Unread, Selection
  <2> QED
    BY <2>2, <2>3 DEF Covered
<1>9. OnlyStored'
  BY <1>5 DEF OnlyStored
<1> QED
  BY <1>4, <1>5, <1>7, <1>8, <1>9, ClientStep DEF Types

\* The one that opens the channel of an instance is the only client there.
LEMMA SubscribeKeeps ==
    ASSUME InboxInv, NEW k \in Client, subscribeWorkspace(k) \/ SubscribeFails(k)
    PROVE  InboxInv'
<1> USE DEF InboxInv
<1>1. /\ client[k] = "joining" /\ client' = [client EXCEPT ![k] = "on"]
      /\ subscribed' \in {subscribed, subscribed \cup {home[k]}}
      /\ deaf \subseteq deaf' /\ home[k] \in subscribed' \cup deaf'
      /\ UNCHANGED <<tables, calls, clients, wire, reading, known, silenced, lost>>
  BY DEF subscribeWorkspace, SubscribeFails, history
<1>2. /\ client'[k] = "on" /\ \A y \in Client : y # k => client'[y] = client[y]
      /\ client' \in [Client -> {"off", "joining", "on", "leaving"}]
      /\ subscribed' \subseteq Instance
  <2>1. client \in [Client -> {"off", "joining", "on", "leaving"}] /\ subscribed \subseteq Instance
    BY DEF Types
  <2>2. home[k] \in Instance
    BY InboxAssumption
  <2> QED
    BY <1>1, <2>1, <2>2
<1>3. /\ UNCHANGED <<link, rows, callback, work, sending, known, silenced>>
      /\ UNCHANGED <<announce, clients, wire, page, seen, lost>> /\ Stored' = Stored
  BY <1>1 DEF tables, calls, reading, Stored
<1>4. page[k] = NoPage /\ clients[home[k]] = {k}
  BY <1>1 DEF Channels
<1>5. Channels'
  BY <1>1, <1>2, <1>3 DEF Channels
<1>6. Covered'
  <2>1. \A r \in Selection(k)' : Unread(k, r)'
    BY <1>3, <1>4, NewReader
  <2>2. ASSUME NEW y \in Client, y # k, Listens(y)', NEW r \in Selection(y)'
        PROVE  r \in seen'[y] \/ OnTheWay(y, r)' \/ Unread(y, r)'
    <3>1. client[y] = "on" /\ home[y] \in Instance
      BY <1>2, <2>2, InboxAssumption DEF Listens
    <3>2. home[y] # home[k]
      BY <1>4, <2>2, <3>1 DEF Channels
    <3>3. Listens(y)
      BY <1>1, <1>2, <2>2, <3>1, <3>2 DEF Listens
    <3> QED
      BY <1>3, <3>3 DEF Covered, OnTheWay, Unread, Selection
  <2> QED
    BY <2>1, <2>2 DEF Covered
<1>7. OnlyStored'
  BY <1>3 DEF OnlyStored
<1> QED
  BY <1>2, <1>3, <1>5, <1>6, <1>7, ClientStep DEF Types

LEMMA RemoveKeeps ==
    ASSUME InboxInv, NEW k \in Client, RemoveClient(k)
    PROVE  InboxInv'
<1> USE DEF InboxInv
<1> DEFINE next == IF clients[home[k]] = {k} /\ home[k] \in subscribed THEN "leaving" ELSE "off"
<1>1. /\ client[k] = "on" /\ ~Busy(home[k])
      /\ clients' = [clients EXCEPT ![home[k]] = @ \ {k}]
      /\ client' = [client EXCEPT ![k] = next]
      /\ seen' = [seen EXCEPT ![k] = {}] /\ page' = [page EXCEPT ![k] = NoPage]
      /\ deaf' = IF clients[home[k]] = {k} THEN deaf \ {home[k]} ELSE deaf
      /\ UNCHANGED <<tables, calls, subscribed, wire, known, silenced, lost>>
  BY DEF RemoveClient
<1>2. home[k] \in Instance
  BY InboxAssumption
<1>3. next \in {"leaving", "off"} /\ (next = "leaving" => clients[home[k]] = {k})
  OBVIOUS
<1> HIDE DEF next
<1>4. /\ client'[k] = next /\ \A y \in Client : y # k => client'[y] = client[y]
      /\ clients'[home[k]] = clients[home[k]] \ {k}
      /\ \A i \in Instance : i # home[k] => clients'[i] = clients[i]
      /\ seen'[k] = {} /\ \A y \in Client : y # k => seen'[y] = seen[y]
      /\ page'[k] = NoPage /\ \A y \in Client : y # k => page'[y] = page[y]
      /\ client' \in [Client -> {"off", "joining", "on", "leaving"}]
      /\ clients' \in [Instance -> SUBSET Client]
      /\ DOMAIN page' = Client /\ DOMAIN seen' = Client
      /\ \A y \in Client : page'[y].asked \in Nat /\ page'[y].query \in Query
  BY <1>1, <1>2, <1>3, NoPageIsPage DEF Types
<1>5. /\ UNCHANGED <<link, rows, callback, work, sending, known, silenced>>
      /\ UNCHANGED <<announce, subscribed, wire, lost>> /\ Stored' = Stored
  BY <1>1 DEF tables, calls, Stored
<1>6. Channels'
  <2>1. \A y \in Client : y # k /\ home[y] = home[k] => client[y] \notin {"joining", "leaving"}
    BY <1>1 DEF Busy
  <2>2. \A y \in Client : home[y] \in Instance
    BY InboxAssumption
  <2>3. \A y \in Client, i \in Instance :
          (y \in clients'[i]) <=> (home[y] = i /\ client'[y] \in {"joining", "on"})
    BY <1>1, <1>2, <1>3, <1>4 DEF Channels
  <2>4. \A y \in Client : client'[y] = "joining" => clients'[home[y]] = {y}
    BY <1>3, <1>4, <2>1, <2>2 DEF Channels
  <2>5. \A y \in Client : client'[y] = "leaving" => clients'[home[y]] = {}
    BY <1>3, <1>4, <2>1, <2>2 DEF Channels
  <2>6. \A y \in Client : client'[y] # "on" => page'[y] = NoPage
    BY <1>4 DEF Channels
  <2>7. \A y \in Client : Shared /\ client'[y] = "on" => home[y] \in subscribed' \cup deaf'
    <3> SUFFICES ASSUME NEW y \in Client, Shared, client'[y] = "on"
                 PROVE  home[y] \in subscribed \cup deaf'
      BY <1>5
    <3>1. y # k /\ client[y] = "on" /\ home[y] \in subscribed \cup deaf
      BY <1>3, <1>4 DEF Channels
    <3>2. y \in clients[home[y]]
      BY <2>2, <3>1 DEF Channels
    <3> QED
      BY <1>1, <3>1, <3>2
  <2> QED
    BY <2>3, <2>4, <2>5, <2>6, <2>7 DEF Channels
<1>7. Covered'
  <2>1. ASSUME NEW y \in Client, Listens(y)', NEW r \in Selection(y)'
        PROVE  r \in seen'[y] \/ OnTheWay(y, r)' \/ Unread(y, r)'
    <3>1. y # k
      BY <1>3, <1>4, <2>1 DEF Listens
    <3>2. Listens(y)
      BY <1>4, <1>5, <2>1, <3>1 DEF Listens
    <3> QED
      BY <1>4, <1>5, <3>1, <3>2 DEF Covered, OnTheWay, Unread, Selection
  <2> QED
    BY <2>1 DEF Covered
<1>8. OnlyStored'
  BY <1>4, <1>5 DEF OnlyStored
<1> QED
  BY <1>4, <1>5, <1>6, <1>7, <1>8, ClientStep DEF Types

LEMMA UnsubscribeKeeps ==
    ASSUME InboxInv, NEW k \in Client, Unsubscribe(k)
    PROVE  InboxInv'
<1> USE DEF InboxInv
<1>1. /\ client[k] = "leaving" /\ client' = [client EXCEPT ![k] = "off"]
      /\ subscribed' = subscribed \ {home[k]}
      /\ wire' = {w \in wire : w.to # home[k]}
      /\ UNCHANGED <<tables, calls, clients, reading, history>>
  BY DEF Unsubscribe
<1>2. /\ client'[k] = "off" /\ \A y \in Client : y # k => client'[y] = client[y]
      /\ client' \in [Client -> {"off", "joining", "on", "leaving"}]
      /\ subscribed' \subseteq Instance
  BY <1>1 DEF Types
<1>3. /\ UNCHANGED <<link, rows, callback, work, sending, known, silenced>>
      /\ UNCHANGED <<announce, clients, page, seen, deaf, lost>> /\ Stored' = Stored
  BY <1>1 DEF tables, calls, reading, history, Stored
<1>4. clients[home[k]] = {} /\ home[k] \in Instance
  BY <1>1, InboxAssumption DEF Channels
<1>5. Channels'
  <2>1. \A y \in Client : home[y] \in Instance
    BY InboxAssumption
  <2>2. \A y \in Client : client'[y] = "on" => home[y] # home[k]
    BY <1>1, <1>2, <1>4, <2>1 DEF Channels
  <2>3. \A y \in Client : Shared /\ client'[y] = "on" => home[y] \in subscribed' \cup deaf'
    BY <1>1, <1>2, <1>3, <2>2 DEF Channels
  <2> QED
    BY <1>1, <1>2, <1>3, <2>3 DEF Channels
<1>6. Covered'
  <2>1. ASSUME NEW y \in Client, Listens(y)', NEW r \in Selection(y)'
        PROVE  r \in seen'[y] \/ OnTheWay(y, r)' \/ Unread(y, r)'
    <3>1. y # k /\ client[y] = "on" /\ Listens(y)
      BY <1>1, <1>2, <2>1 DEF Listens
    <3>2. home[y] # home[k]
      BY <1>4, <3>1 DEF Channels
    <3>3. OnTheWay(y, r) => OnTheWay(y, r)'
      <4>1. [to |-> home[y], row |-> r].to = home[y]
        OBVIOUS
      <4> QED
        BY <1>1, <1>3, <3>2, <4>1 DEF OnTheWay
    <3> QED
      BY <1>3, <3>1, <3>3 DEF Covered, Unread, Selection
  <2> QED
    BY <2>1 DEF Covered
<1>7. OnlyStored'
  BY <1>1, <1>3 DEF OnlyStored
<1> QED
  BY <1>2, <1>3, <1>5, <1>6, <1>7, ClientStep DEF Types

\* Whoever listens is a client of the channel of its instance.
LEMMA ListenersAreClients ==
    ASSUME InboxInv, NEW k \in Client, Listens(k)
    PROVE  home[k] \in Instance /\ k \in clients[home[k]]
BY InboxAssumption DEF InboxInv, Channels, Listens

LEMMA BroadcastKeeps ==
    ASSUME InboxInv, NEW r \in announce, BroadcastToWorkspace(r)
    PROVE  InboxInv'
<1> USE DEF InboxInv
<1> DEFINE told == UNION {clients[i] : i \in Instance}
           sent == {[to |-> i, row |-> r] : i \in subscribed}
<1>1. /\ announce' = announce \ {r}
      /\ UNCHANGED <<tables, callback, work, sending, clients, subscribed, client, page, history>>
  BY DEF BroadcastToWorkspace
<1>2. IF Shared
      THEN wire' = wire \cup sent /\ seen' = seen
      ELSE /\ wire' = wire
           /\ seen' = [k \in Client |-> IF k \in told THEN seen[k] \cup {r} ELSE seen[k]]
  BY DEF BroadcastToWorkspace, Hear
<1>3. UNCHANGED <<link, rows, known, silenced, deaf, lost>> /\ Stored' = Stored /\ r \in Stored
  BY <1>1 DEF tables, history, Stored, OnlyStored
<1>4. /\ wire \subseteq wire' /\ DOMAIN seen' = Client
      /\ \A k \in Client : seen[k] \subseteq seen'[k] /\ seen'[k] \subseteq seen[k] \cup {r}
      /\ \A w \in wire' : w \in wire \/ w.row = r
  BY <1>2 DEF Types
<1>5. Channels'
  BY <1>1, <1>3 DEF Channels
<1>6. Covered'
  <2>1. ASSUME NEW k \in Client, Listens(k)', NEW x \in Selection(k)'
        PROVE  x \in seen'[k] \/ OnTheWay(k, x)' \/ Unread(k, x)'
    <3>1. Listens(k) /\ home[k] \in Instance /\ k \in clients[home[k]]
      BY <1>1, <2>1, ListenersAreClients DEF Listens
    <3>2. Selection(k)' = Selection(k) /\ (Unread(k, x) => Unread(k, x)')
      BY <1>1, <1>3 DEF Unread, Selection
    <3>3. x # r /\ OnTheWay(k, x) => OnTheWay(k, x)'
      BY <1>1, <1>3, <1>4 DEF OnTheWay
    <3>4. r \in seen'[k] \/ [to |-> home[k], row |-> r] \in wire'
      <4>1. CASE Shared
        <5>1. home[k] \in subscribed
          BY <3>1, <4>1 DEF Listens
        <5> QED
          BY <1>2, <4>1, <5>1
      <4>2. CASE ~Shared
        <5>1. k \in told
          BY <3>1
        <5> HIDE DEF told
        <5> QED
          BY <1>2, <4>2, <5>1
      <4> QED
        BY <4>1, <4>2
    <3> QED
      BY <1>3, <1>4, <3>1, <3>2, <3>3, <3>4 DEF Covered, OnTheWay
  <2> QED
    BY <2>1 DEF Covered
<1>7. OnlyStored'
  BY <1>1, <1>3, <1>4 DEF OnlyStored
<1> QED
  BY <1>1, <1>3, <1>4, <1>5, <1>6, <1>7, ClientStep DEF Types

LEMMA DeliverKeeps ==
    ASSUME InboxInv, NEW w \in wire, Deliver(w)
    PROVE  InboxInv'
<1> USE DEF InboxInv
<1>1. /\ wire' = wire \ {w}
      /\ seen' = [k \in Client |-> IF k \in clients[w.to] THEN seen[k] \cup {w.row} ELSE seen[k]]
      /\ UNCHANGED <<tables, calls, clients, subscribed, client, page, history>>
  BY DEF Deliver, Hear
<1>2. /\ UNCHANGED <<link, rows, callback, work, sending, known, silenced, announce>>
      /\ UNCHANGED <<deaf, lost>> /\ Stored' = Stored /\ w.row \in Stored
  BY <1>1 DEF tables, calls, history, Stored, OnlyStored
<1>3. /\ DOMAIN seen' = Client
      /\ \A k \in Client : seen[k] \subseteq seen'[k] /\ seen'[k] \subseteq seen[k] \cup {w.row}
  BY <1>1
<1>4. Channels'
  BY <1>1, <1>2 DEF Channels
<1>5. Covered'
  <2>1. ASSUME NEW k \in Client, Listens(k)', NEW x \in Selection(k)'
        PROVE  x \in seen'[k] \/ OnTheWay(k, x)' \/ Unread(k, x)'
    <3>1. Listens(k) /\ home[k] \in Instance /\ k \in clients[home[k]]
      BY <1>1, <2>1, ListenersAreClients DEF Listens
    <3>2. Selection(k)' = Selection(k) /\ (Unread(k, x) => Unread(k, x)')
      BY <1>1, <1>2 DEF Unread, Selection
    <3>3. CASE [to |-> home[k], row |-> x] = w
      <4>1. w.to = home[k] /\ w.row = x
        BY <3>3
      <4> QED
        BY <1>1, <3>1, <4>1
    <3>4. CASE [to |-> home[k], row |-> x] # w
      BY <1>1, <1>2, <1>3, <3>1, <3>2, <3>4 DEF Covered, OnTheWay
    <3> QED
      BY <3>3, <3>4
  <2> QED
    BY <2>1 DEF Covered
<1>6. OnlyStored'
  BY <1>1, <1>2, <1>3 DEF OnlyStored
<1> QED
  BY <1>1, <1>2, <1>3, <1>4, <1>5, <1>6, ClientStep DEF Types

\* A client that has read nothing chooses what to ask for, and the others go on
\* with it: what it has still to read is so of the query it asks with.
LEMMA QueryIsKept ==
    ASSUME InboxInv, NEW k \in Client, ~page[k].ended, NEW q \in QueryOf(k)
    PROVE  /\ q \in Query
           /\ Listens(k) => \A r \in Select(q, Stored) :
                r \in seen[k] \/ OnTheWay(k, r)
                \/ page[k].asked * PageSize <= Before(Select(q, Stored), r)
<1>1. Dated(Select(q, Stored)) /\ page[k].asked \in Nat /\ PageSize \in Nat
  BY StoredIsDated, SelectionIsPart, InboxAssumption DEF InboxInv, Types
<1>2. CASE page[k].asked = 0
  <2>1. q \in Query
    BY <1>2, QueryAssumption DEF QueryOf
  <2>2. \A r : Before(Select(q, Stored), r) \in Nat
    BY <1>1, BeforeIsNumber
  <2> QED
    BY <1>1, <1>2, <2>1, <2>2
<1>3. CASE page[k].asked # 0
  <2>1. q = page[k].query
    BY <1>3 DEF QueryOf
  <2> QED
    BY <2>1 DEF InboxInv, Covered, Types, Selection, Unread
<1> QED
  BY <1>2, <1>3

\* A page that is not full ends the reading, and leaves nothing behind it.
LEMMA GetPageKeeps ==
    ASSUME InboxInv, NEW k \in Client, GetPage(k)
    PROVE  InboxInv'
<1> USE DEF InboxInv
<1>1. PICK q \in QueryOf(k) :
           /\ seen' = [seen EXCEPT ![k] = @ \cup Answer(q, page[k].asked)]
           /\ page' = [page EXCEPT ![k] = [query |-> q, asked |-> page[k].asked + 1,
                             ended |-> Cardinality(Answer(q, page[k].asked)) < PageSize]]
  BY DEF GetPage, Types
<1>2. /\ client[k] = "on" /\ ~page[k].ended
      /\ UNCHANGED <<tables, calls, sockets, history>>
  BY DEF GetPage
<1>3. q \in Query
  BY <1>2, QueryIsKept
<1> DEFINE n == page[k].asked
           s == Select(q, Stored)
           p == Page(s, n)
<1>4. Answer(q, page[k].asked) = p
  BY <1>3, AnswersArePages
<1>5. /\ UNCHANGED <<link, rows, callback, work, sending, known, silenced, announce, deaf, lost>>
      /\ Stored' = Stored
  BY <1>2 DEF tables, calls, history, Stored
<1>6. n \in Nat /\ PageSize \in Nat \ {0} /\ Dated(s) /\ s \subseteq Stored /\ p \subseteq s
  BY InboxAssumption, StoredIsDated, SelectionIsPart DEF Types, Page
<1>7. /\ page'[k].query = q /\ page'[k].asked = n + 1 /\ page'[k].ended = (Cardinality(p) < PageSize)
      /\ seen'[k] = seen[k] \cup p
      /\ \A y \in Client : y # k => page'[y] = page[y] /\ seen'[y] = seen[y]
      /\ DOMAIN page' = Client /\ DOMAIN seen' = Client
  BY <1>1, <1>4 DEF Types
<1>8. Channels'
  BY <1>2, <1>5, <1>7 DEF Channels, sockets
<1>9. Covered'
  <2>1. ASSUME NEW r \in s, n * PageSize <= Before(s, r)
        PROVE  r \in p \/ (~page'[k].ended /\ (n + 1) * PageSize <= Before(s, r))
    <3>1. Before(s, r) \in Nat
      BY <1>6, BeforeIsNumber
    <3>2. n * PageSize \in Nat /\ (n + 1) * PageSize \in Nat
      BY <1>6
    <3>3. CASE Before(s, r) < (n + 1) * PageSize
      <4> HIDE DEF s, n
      <4> QED
        BY <2>1, <3>1, <3>2, <3>3 DEF Page
    <3>4. CASE (n + 1) * PageSize <= Before(s, r)
      <4>1. PageSize <= Cardinality(p)
        <5> HIDE DEF s, n
        <5> QED
          BY <1>6, <3>4, ShortPageIsLast
      <4>2. IsFiniteSet(p)
        BY <1>6, FS_Subset DEF Dated
      <4>3. Cardinality(p) \in Nat
        BY <4>2, FS_CardinalityType
      <4>4. ~(Cardinality(p) < PageSize)
        <5> HIDE DEF p
        <5> QED
          BY <1>6, <4>1, <4>3
      <4> HIDE DEF p, n, s
      <4> QED
        BY <1>7, <3>4, <4>4
    <3> HIDE DEF s, n, p
    <3> QED
      BY <3>1, <3>2, <3>3, <3>4
  <2>2. /\ Selection(k)' = s /\ \A y \in Client : y # k => Selection(y)' = Selection(y)
        /\ \A r : Unread(k, r)' <=> ~page'[k].ended /\ (n + 1) * PageSize <= Before(s, r)
    BY <1>5, <1>7 DEF Selection, Unread
  <2>3. \A y, r : OnTheWay(y, r) <=> OnTheWay(y, r)'
    BY <1>2, <1>5 DEF OnTheWay, sockets
  <2>4. \A y : Listens(y)' <=> Listens(y)
    BY <1>2 DEF Listens, sockets
  <2>5. ASSUME Listens(k), NEW r \in s
        PROVE  r \in seen[k] \/ OnTheWay(k, r) \/ n * PageSize <= Before(s, r)
    BY <1>2, <2>5, QueryIsKept
  <2>6. ASSUME NEW y \in Client, y # k, Listens(y), NEW r \in Selection(y)
        PROVE  r \in seen'[y] \/ OnTheWay(y, r)' \/ Unread(y, r)'
    BY <1>5, <1>7, <2>3, <2>6 DEF Covered, Unread, Selection
  <2> HIDE DEF p, s, n
  <2>7. ASSUME NEW r \in s, Listens(k)
        PROVE  r \in seen'[k] \/ OnTheWay(k, r)' \/ Unread(k, r)'
    BY <1>7, <2>1, <2>2, <2>3, <2>5, <2>7
  <2> QED
    BY <2>2, <2>4, <2>6, <2>7 DEF Covered
<1>10. OnlyStored'
  BY <1>2, <1>5, <1>6, <1>7 DEF OnlyStored, sockets
<1>11. \A y \in Client : page'[y].asked \in Nat /\ page'[y].query \in Query
  BY <1>3, <1>6, <1>7 DEF Types
<1> QED
  BY <1>2, <1>5, <1>7, <1>8, <1>9, <1>10, <1>11, ClientStep DEF Types, sockets

\* When there are no more rows than were read, none has still to be read.
LEMMA GetCountKeeps ==
    ASSUME InboxInv, NEW k \in Client, GetCount(k)
    PROVE  InboxInv'
<1> USE DEF InboxInv
<1>1. PICK q \in QueryOf(k) :
           /\ q.kind # "key" /\ HowMany(q) <= page[k].asked * PageSize
           /\ page' = [page EXCEPT ![k] = [query |-> q, asked |-> page[k].asked, ended |-> TRUE]]
  BY DEF GetCount, Types
<1>2. /\ client[k] = "on" /\ ~page[k].ended
      /\ UNCHANGED <<tables, calls, sockets, seen, history>>
  BY DEF GetCount
<1>3. q \in Query
  BY <1>2, QueryIsKept
<1> DEFINE s == Select(q, Stored)
<1>4. HowMany(q) = Cardinality(s)
  BY <1>1, <1>3, AnswersArePages
<1>5. /\ UNCHANGED <<link, rows, callback, work, sending, known, silenced, announce, deaf, lost>>
      /\ Stored' = Stored
  BY <1>2 DEF tables, calls, history, Stored
<1>6. page[k].asked \in Nat /\ PageSize \in Nat \ {0} /\ Dated(s)
  BY InboxAssumption, StoredIsDated, SelectionIsPart DEF Types
<1>7. /\ page'[k].query = q /\ page'[k].asked = page[k].asked /\ page'[k].ended = TRUE
      /\ \A y \in Client : y # k => page'[y] = page[y]
      /\ DOMAIN page' = Client /\ DOMAIN seen' = Client
  BY <1>1, <1>2 DEF Types
<1>8. Channels'
  BY <1>2, <1>5, <1>7 DEF Channels, sockets
<1>9. Covered'
  <2>1. ASSUME NEW r \in s
        PROVE  ~(page[k].asked * PageSize <= Before(s, r))
    <3> DEFINE N == {x \in s : x.at > r.at}
    <3>1. N \in SUBSET s /\ N # s /\ IsFiniteSet(s)
      <4>1. r \notin N
        BY <1>6 DEF Dated
      <4> HIDE DEF s
      <4> QED
        BY <1>6, <2>1, <4>1 DEF Dated
    <3>2. Cardinality(N) <= Cardinality(s) /\ Cardinality(N) # Cardinality(s)
      <4> HIDE DEF N, s
      <4> QED
        BY <3>1, FS_Subset
    <3>3. Cardinality(N) \in Nat /\ Cardinality(s) \in Nat
      <4> HIDE DEF N, s
      <4> QED
        BY <3>1, FS_Subset, FS_CardinalityType
    <3>4. Cardinality(s) <= page[k].asked * PageSize /\ page[k].asked * PageSize \in Nat
      BY <1>1, <1>4, <1>6
    <3> HIDE DEF s
    <3> QED
      BY <3>2, <3>3, <3>4 DEF Before
  <2>2. /\ Selection(k)' = s /\ \A y \in Client : y # k => Selection(y)' = Selection(y)
    BY <1>5, <1>7 DEF Selection
  <2>3. \A y, r : OnTheWay(y, r) <=> OnTheWay(y, r)'
    BY <1>2, <1>5 DEF OnTheWay, sockets
  <2>4. \A y : Listens(y)' <=> Listens(y)
    BY <1>2 DEF Listens, sockets
  <2>5. ASSUME Listens(k), NEW r \in s
        PROVE  r \in seen'[k] \/ OnTheWay(k, r)'
    <3>1. r \in seen[k] \/ OnTheWay(k, r) \/ page[k].asked * PageSize <= Before(s, r)
      BY <1>2, <2>5, QueryIsKept
    <3> HIDE DEF s
    <3> QED
      BY <1>2, <2>1, <2>3, <2>5, <3>1
  <2>6. ASSUME NEW y \in Client, y # k, Listens(y), NEW r \in Selection(y)
        PROVE  r \in seen'[y] \/ OnTheWay(y, r)' \/ Unread(y, r)'
    BY <1>2, <1>5, <1>7, <2>3, <2>6 DEF Covered, Unread, Selection
  <2> HIDE DEF s
  <2> QED
    BY <2>2, <2>4, <2>5, <2>6 DEF Covered
<1>10. OnlyStored'
  BY <1>2, <1>5 DEF OnlyStored, sockets
<1>11. \A y \in Client : page'[y].asked \in Nat /\ page'[y].query \in Query
  BY <1>3, <1>6, <1>7 DEF Types
<1> QED
  BY <1>2, <1>5, <1>7, <1>8, <1>9, <1>10, <1>11, ClientStep DEF Types, sockets
-----------------------------------------------------------------------------
(* Steps that fail.                                                        *)

LEMMA PublishFailsKeeps ==
    ASSUME InboxInv, NEW r \in announce, PublishFails(r)
    PROVE  InboxInv'
<1> USE DEF InboxInv
<1>1. /\ announce' = announce \ {r}
      /\ lost' = lost \cup {[to |-> i, row |-> r] : i \in Instance}
      /\ UNCHANGED <<tables, callback, work, sending, sockets, reading, known, silenced, deaf>>
  BY DEF PublishFails, Lose
<1>2. UNCHANGED <<link, rows>> /\ Stored' = Stored
  BY <1>1 DEF tables, Stored
<1>3. \A k \in Client : Selection(k)' = Selection(k) /\ \A x : Unread(k, x) => Unread(k, x)'
  BY <1>1, <1>2 DEF Unread, Selection, reading
<1>4. \A k \in Client : \A x : OnTheWay(k, x) => OnTheWay(k, x)'
  <2>1. \A k \in Client : home[k] \in Instance
    BY InboxAssumption
  <2> QED
    BY <1>1, <2>1 DEF OnTheWay, sockets
<1>5. Channels' /\ Covered' /\ OnlyStored'
  <2>1. Channels'
    BY <1>1 DEF Channels, sockets, reading
  <2>2. Covered'
    BY <1>1, <1>3, <1>4 DEF Covered, Listens, sockets, reading
  <2>3. OnlyStored'
    BY <1>1, <1>2 DEF OnlyStored, sockets, reading
  <2> QED
    BY <2>1, <2>2, <2>3
<1> QED
  BY <1>1, <1>2, <1>5, ClientStep DEF Types, sockets, reading

LEMMA DecodingFailsKeeps ==
    ASSUME InboxInv, NEW w \in wire, DecodingFails(w)
    PROVE  InboxInv'
<1> USE DEF InboxInv
<1>1. /\ wire' = wire \ {w} /\ lost' = lost \cup {w}
      /\ UNCHANGED <<tables, calls, clients, subscribed, client, reading, known, silenced, deaf>>
  BY DEF DecodingFails, Lose
<1>2. UNCHANGED <<link, rows, callback, work, sending, announce>> /\ Stored' = Stored
  BY <1>1 DEF tables, calls, Stored
<1>3. \A k \in Client : Selection(k)' = Selection(k) /\ \A x : Unread(k, x) => Unread(k, x)'
  BY <1>1, <1>2 DEF Unread, Selection, reading
<1>4. \A k \in Client : \A x : OnTheWay(k, x) => OnTheWay(k, x)'
  BY <1>1, <1>2 DEF OnTheWay
<1>5. Channels' /\ Covered' /\ OnlyStored'
  <2>1. Channels'
    BY <1>1 DEF Channels, reading
  <2>2. Covered'
    BY <1>1, <1>3, <1>4 DEF Covered, Listens, reading
  <2>3. OnlyStored'
    BY <1>1, <1>2 DEF OnlyStored, reading
  <2> QED
    BY <2>1, <2>2, <2>3
<1> QED
  BY <1>1, <1>2, <1>5, ClientStep DEF Types, reading

\* Clients of other instances hear what they heard, or it is known to be lost.
LEMMA InstanceDiesKeeps ==
    ASSUME InboxInv, NEW i \in Instance, InstanceDies(i)
    PROVE  InboxInv'
<1> USE DEF InboxInv
<1>1. PICK R \in SUBSET announce :
           /\ announce' = announce \ R
           /\ lost' = lost \cup {[to |-> j, row |-> r] : j \in Instance, r \in R}
  BY DEF InstanceDies, Lose
<1>2. /\ clients' = [clients EXCEPT ![i] = {}]
      /\ subscribed' = subscribed \ {i} /\ deaf' = deaf \ {i}
      /\ wire' = {w \in wire : w.to # i}
      /\ client' = [k \in Client |-> IF home[k] = i THEN "off" ELSE client[k]]
      /\ seen' = [k \in Client |-> IF home[k] = i THEN {} ELSE seen[k]]
      /\ page' = [k \in Client |-> IF home[k] = i THEN NoPage ELSE page[k]]
      /\ UNCHANGED <<tables, callback, work, sending, known, silenced>>
  BY DEF InstanceDies
<1>3. UNCHANGED <<link, rows>> /\ Stored' = Stored
  BY <1>2 DEF tables, Stored
<1>4. \A k \in Client : home[k] \in Instance
  BY InboxAssumption
<1>5. /\ \A k \in Client : home[k] = i => client'[k] = "off" /\ seen'[k] = {} /\ page'[k] = NoPage
      /\ \A k \in Client : home[k] # i => /\ client'[k] = client[k] /\ seen'[k] = seen[k]
                                          /\ page'[k] = page[k]
      /\ clients'[i] = {} /\ \A j \in Instance : j # i => clients'[j] = clients[j]
      /\ client' \in [Client -> {"off", "joining", "on", "leaving"}]
      /\ clients' \in [Instance -> SUBSET Client] /\ subscribed' \subseteq Instance
      /\ DOMAIN page' = Client /\ DOMAIN seen' = Client
      /\ \A k \in Client : page'[k].asked \in Nat /\ page'[k].query \in Query
  BY <1>2, NoPageIsPage DEF Types
<1>6. Channels'
  BY <1>2, <1>4, <1>5 DEF Channels
<1>7. Covered'
  <2>1. ASSUME NEW k \in Client, Listens(k)', NEW x \in Selection(k)'
        PROVE  x \in seen'[k] \/ OnTheWay(k, x)' \/ Unread(k, x)'
    <3>1. home[k] # i /\ Listens(k)
      BY <1>2, <1>5, <2>1 DEF Listens
    <3>2. Selection(k)' = Selection(k) /\ (Unread(k, x) => Unread(k, x)')
      BY <1>3, <1>5, <3>1 DEF Unread, Selection
    <3>3. OnTheWay(k, x) => OnTheWay(k, x)'
      <4>1. [to |-> home[k], row |-> x].to # i
        BY <3>1
      <4>2. x \in R => [to |-> home[k], row |-> x] \in lost'
        BY <1>1, <1>4
      <4> QED
        BY <1>1, <1>2, <4>1, <4>2 DEF OnTheWay
    <3> QED
      BY <1>5, <2>1, <3>1, <3>2, <3>3 DEF Covered
  <2> QED
    BY <2>1 DEF Covered
<1>8. OnlyStored'
  BY <1>1, <1>2, <1>3, <1>5 DEF OnlyStored
<1> QED
  BY <1>2, <1>3, <1>5, <1>6, <1>7, <1>8, ClientStep
-----------------------------------------------------------------------------
LEMMA InboxStep == InboxInv /\ [Next]_vars => InboxInv'
<1> SUFFICES ASSUME InboxInv, [Next]_vars
             PROVE  InboxInv'
  OBVIOUS
<1>1. ASSUME NEW c \in Callback,
             Receive(c) \/ CallbackFails(c) \/ Commit(c) \/ AnswerLost(c)
      PROVE  InboxInv'
  BY <1>1, ReceiveKeeps, CallbackFailsKeeps, CommitKeeps, AnswerLostKeeps
<1>2. ASSUME NEW m \in Message,
             Look(m) \/ CreateLink(m) \/ Store(m) \/ Silence(m)
      PROVE  InboxInv'
  BY <1>2, LookKeeps, CreateLinkKeeps, StoreKeeps, SilenceKeeps
<1>3. ASSUME NEW l \in Link,
             \/ BlockContact(l) \/ UnblockContact(l)
             \/ DeleteContact(l) \/ SendWhatsAppMessage(l)
      PROVE  InboxInv'
  BY <1>3, SetBlockedKeeps, DeleteContactKeeps, SendKeeps DEF BlockContact, UnblockContact
<1>4. ASSUME NEW m \in Message,
             CreateContact(sender[m]) \/ CreateWhatsAppContact(sender[m])
      PROVE  InboxInv'
  BY <1>4, LinkByHandKeeps DEF CreateContact, CreateWhatsAppContact
<1>5. ASSUME NEW k \in Client,
             \/ AppendClient(k) \/ subscribeWorkspace(k) \/ SubscribeFails(k)
             \/ RemoveClient(k) \/ Unsubscribe(k) \/ GetPage(k) \/ GetCount(k)
      PROVE  InboxInv'
  BY <1>5, AppendKeeps, SubscribeKeeps, RemoveKeeps, UnsubscribeKeeps, GetPageKeeps, GetCountKeeps
<1>6. ASSUME NEW r \in announce, BroadcastToWorkspace(r) \/ PublishFails(r)
      PROVE  InboxInv'
  BY <1>6, BroadcastKeeps, PublishFailsKeeps
<1>7. ASSUME NEW w \in wire, Deliver(w) \/ DecodingFails(w)
      PROVE  InboxInv'
  BY <1>7, DeliverKeeps, DecodingFailsKeeps
<1>9. ASSUME NEW i \in Instance, InstanceDies(i)
      PROVE  InboxInv'
  BY <1>9, InstanceDiesKeeps
<1>10. ASSUME NEW x \in sending, SaveSent(x) \/ SendFails(x)
      PROVE  InboxInv'
  BY <1>10, SaveSentKeeps, SendFailsKeeps
<1>8. CASE UNCHANGED vars
  <2> USE <1>8 DEF vars, tables, calls, sockets, reading, history
  <2>1. Stored' = Stored /\ \A k : Selection(k)' = Selection(k) /\ \A r : Unread(k, r)' <=> Unread(k, r)
    BY DEF Stored, Unread, Selection
  <2>2. Channels' /\ Covered' /\ OnlyStored'
    BY <2>1 DEF InboxInv, Channels, Covered, Listens, OnTheWay, OnlyStored
  <2>3. Types'
    BY DEF InboxInv, Types
  <2> QED
    BY <2>2, <2>3, TablesStay DEF InboxInv
<1> QED
  BY <1>1, <1>2, <1>3, <1>4, <1>5, <1>6, <1>7, <1>8, <1>9, <1>10 DEF Next, contactRoutes

LEMMA InboxAlways == Spec => []InboxInv
<1>1. Init => InboxInv
  BY InboxInit
<1>2. InboxInv /\ [Next]_vars => InboxInv'
  BY InboxStep
<1> QED
  BY <1>1, <1>2, PTL DEF Spec
-----------------------------------------------------------------------------
(* The theorems.                                                           *)

LEMMA ThroughIsCovered ==
    ASSUME InboxInv, NEW k \in Client, Through(k), NEW r \in Selection(k), Told(k, r)
    PROVE  r \in seen[k]
<1>1. Listens(k)
  BY DEF Through, Told, Listens, InboxInv, Channels
<1>2. ~Unread(k, r) /\ ~OnTheWay(k, r)
  BY DEF Through, Told, Unread, OnTheWay
<1> QED
  BY <1>1, <1>2 DEF InboxInv, Covered

\* Whatever callbacks roll back and operators delete, every row of messages
\* refers to a link that is there for whoever sees the row.
THEOREM RowsAreWhole == Spec => []TypeOK
<1>1. InboxInv => TypeOK
  BY DEF InboxInv, Types, Rows, TypeOK
<1> QED
  BY <1>1, InboxAlways, PTL

\* A callback that WhatsApp was told is handled has left each of its messages
\* in the tables, or found its sender blocked, however often it was delivered,
\* whatever failed before, and whatever other callbacks and operators did.
THEOREM AnswerMeansStored == Spec => []AnsweredMeansStored
<1>1. InboxInv => AnsweredMeansStored
  <2> SUFFICES ASSUME InboxInv, NEW c \in Callback, callback[c].at = "answered",
                      NEW m \in Batch[c]
               PROVE  m \in silenced \/ \E r \in Stored : r.message = m
    BY DEF AnsweredMeansStored
  <2> QED
    BY DEF InboxInv, Kept, HasRow, Stored
<1> QED
  BY <1>1, InboxAlways, PTL

\* No callback creates a link for a number that had one when it began and was
\* not deleted since: conversations split only when first messages race.
THEOREM OnlyRacesSplit == Spec => []SplitOnlyByRace
<1>1. InboxInv => SplitOnlyByRace
  BY DEF InboxInv, KnownLinked
<1> QED
  BY <1>1, InboxAlways, PTL

\* A client that has joined and then read page after page until one was not
\* full, or until it had as many as there are, has every row that its query
\* asks for once announcements are through, but those whose announcement failed
\* on the way to its instance and those that an instance could not subscribe to:
\* neither the rows that came while it read, which push others to pages it has
\* passed, nor those of a callback that took longer than others, are missed.
THEOREM NobodyMisses == Spec => []NothingMissed
<1>1. InboxInv => NothingMissed
  <2> SUFFICES ASSUME InboxInv, NEW k \in Client, Through(k)
               PROVE  /\ seen[k] \subseteq Stored
                      /\ \A r \in Stored : Wanted(page[k].query, r) /\ Told(k, r) => r \in seen[k]
    BY DEF NothingMissed
  <2>1. seen[k] \subseteq Stored
    BY DEF InboxInv, OnlyStored
  <2>2. ASSUME NEW r \in Stored, Wanted(page[k].query, r), Told(k, r)
        PROVE  r \in seen[k]
    <3>1. page[k].query.kind # "conversations"
      BY <2>2 DEF Wanted
    <3>2. r \in Selection(k)
      BY <2>2, <3>1 DEF Selection, Select
    <3> QED
      BY <2>2, <3>2, ThroughIsCovered
  <2> QED
    BY <2>1, <2>2
<1> QED
  BY <1>1, InboxAlways, PTL

\* A client that has joined and then read the list of conversations to its end
\* knows the newest message of each, for any number of contacts and pages of
\* any size, though messages move conversations to pages that it has passed.
THEOREM NewestAreKnown == Spec => []NewestKnown
<1>1. InboxInv => NewestKnown
  <2> SUFFICES ASSUME InboxInv, NEW k \in Client, Through(k), page[k].query.kind = "conversations",
                      NEW l \in Link, NEW r \in Conversation(l),
                      \A x \in Conversation(l) : x.at <= r.at, Told(k, r)
               PROVE  r \in seen[k]
    BY DEF NewestKnown
  <2>1. \A x \in Stored : x \in Conversation(l) <=> With(x) = l
    BY OneConversation DEF InboxInv
  <2>2. r \in Stored
    BY DEF Conversation
  <2>3. r \in Selection(k)
    BY <2>1, <2>2 DEF Selection, Select, Tops
  <2> QED
    BY <2>3, ThroughIsCovered
<1> QED
  BY <1>1, InboxAlways, PTL
=============================================================================
