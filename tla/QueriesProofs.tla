---------------------------- MODULE QueriesProofs ----------------------------
(***************************************************************************)
(* What readers of the books are told, for all contracts, clients, amounts *)
(* and lengths of blocks and transactions.                                 *)
(***************************************************************************)
EXTENDS Queries, Arithmetic

-----------------------------------------------------------------------------
(* The inductive invariant.                                                *)

BookRecord == [capSet : SUBSET Contracts, cap : [Contracts -> Nat],
               total : [Contracts -> Nat], minted : Int]

\* What the keeper writes down together: a contract that never got a cap has
\* none and nothing delegated, and the totals are what was minted.
Books ==
    {b \in BookRecord :
        /\ \A c \in Contracts \ b.capSet : b.cap[c] = 0 /\ b.total[c] = 0
        /\ b.minted = Sum(b.total, Contracts)}

TxRecord == [contract : Contracts, books : Books, room : Int, msgs : Int]

\* A contract that asked has the difference of cap and total of the books of
\* its own transaction.
RoomKnown(t) ==
    t.room # Unknown =>
        t.room = GetMaxCapLimit(t.books, t.contract)
                   - GetTotalDelegated(t.books, t.contract)

Kinds == {"limit", "limits", "params"}

SentRecord == [stage : {"sent"}, kind : Kinds, addr : Addresses]

\* A good reply is what the handler makes of the committed state at its height.
Told(x, ss) ==
    x.reply.err = "ok" =>
        x.at \in 1..Len(ss) /\ x.reply = Handler(ss[x.at], x.kind, x.addr)

\* A client with a reply, good or not.
Replied(x, ss) ==
    /\ x.stage \in {"served", "done"}
    /\ x = Reply(x.stage, x.kind, x.addr, x.at, x.reply)
    /\ x.kind \in Kinds /\ x.addr \in Addresses
    /\ Told(x, ss)

\* The query of a client, when ss are the committed states.
ClientOK(x, ss) ==
    x = Idle \/ x \in SentRecord \/ Replied(x, ss)

QueryInv ==
    /\ states \in Seq(Books) /\ Len(states) >= 1
    /\ block \in Books
    /\ tx = NoTx \/ (tx \in TxRecord /\ RoomKnown(tx))
    /\ client = [cl \in Clients |-> client[cl]]
    /\ \A cl \in Clients : ClientOK(client[cl], states)

-----------------------------------------------------------------------------
(* Sums of totals.                                                         *)

\* The sum over a list of answers is the sum of the totals read.
LEMMA DelegatedSum ==
    ASSUME NEW S, IsFiniteSet(S), NEW x
    PROVE  SumOver(S, LAMBDA c : x[c].delegated) = Sum([c \in S |-> x[c].delegated], S)
<1> DEFINE f == [c \in S |-> x[c].delegated]
           Body(g, s) == IF s = {} THEN 0
                         ELSE x[Pick(s)].delegated + g[s \ {Pick(s)}]
           iter == CHOOSE g : g = [s \in SUBSET S |-> Body(g, s)]
<1>1. ASSUME NEW g, NEW s \in SUBSET S PROVE Body(g, s) = Rest(f, g, s)
  <2>1. CASE s = {}
    BY <2>1 DEF Rest
  <2>2. CASE s # {}
    <3>1. Pick(s) \in S
      BY <2>2 DEF Pick
    <3>2. f[Pick(s)] = x[Pick(s)].delegated
      BY <3>1
    <3> QED BY <2>2, <3>2 DEF Rest
  <2> QED BY <2>1, <2>2
<1>2. SumOver(S, LAMBDA c : x[c].delegated) = iter[S]
  BY DEF SumOver, MapThenSumSet, MapThenFoldSet, Pick
<1> HIDE DEF Body, f
<1>3. PICK g : IsIter(g, f, S)
  BY IterExists
<1>4. g = [s \in SUBSET S |-> Body(g, s)]
  BY <1>1, <1>3 DEF IsIter
<1>5. iter = [s \in SUBSET S |-> Body(iter, s)]
  BY <1>4
<1> HIDE DEF iter
<1>6. IsIter(iter, f, S)
  BY <1>1, <1>5 DEF IsIter
<1>7. PICK h : IsIter(h, f, S) /\ Sum(f, S) = h[S]
  BY SumUnfold
<1>8. S \in SUBSET S /\ \A c \in S : f[c] = f[c]
  OBVIOUS
<1>9. \A s \in SUBSET S : iter[s] = h[s]
  BY <1>6, <1>7, <1>8, IterAgree
<1>10. iter[S] = h[S]
  BY <1>8, <1>9
<1> QED BY <1>2, <1>7, <1>10 DEF f

\* Values outside a subset that are all zero do not count.
LEMMA SumSupport ==
    ASSUME NEW T, IsFiniteSet(T), NEW S \in SUBSET T, NEW f,
           \A c \in T : f[c] \in Int, \A c \in T \ S : f[c] = 0
    PROVE  Sum(f, S) = Sum(f, T)
<1> DEFINE R == T \ S
<1>1. IsFiniteSet(S) /\ IsFiniteSet(R) /\ S \cap R = {} /\ S \cup R = T
  BY FS_Subset
<1>2. /\ \A c \in R : f[c] = 0
      /\ \A c \in S : f[c] \in Int
      /\ \A c \in S \cup R : f[c] \in Int
  OBVIOUS
<1> HIDE DEF R
<1>3. Sum(f, T) = Sum(f, S) + Sum(f, R)
  BY <1>1, <1>2, SumUnion
<1>4. Sum(f, R) = 0
  <2>1. Sum(f, R) = Cardinality(R) * 0
    BY <1>1, <1>2, SumConst
  <2>2. Cardinality(R) \in Nat
    BY <1>1, FS_CardinalityType
  <2> QED BY <2>1, <2>2
<1>5. Sum(f, S) \in Int
  BY <1>1, <1>2, SumInt
<1> QED BY <1>3, <1>4, <1>5

\* The list of all caps, of any books that are in order, adds up to what was
\* minted.
LEMMA ListIsComplete ==
    ASSUME NEW b \in Books
    PROVE  LET infos == VirtualStakingMaxCapLimits(b).infos
           IN  SumOver(DOMAIN infos, LAMBDA c : infos[c].delegated) = b.minted
<1> DEFINE infos == [c \in b.capSet |-> Info(b, c)]
           S == b.capSet
           f == [c \in S |-> infos[c].delegated]
           t == b.total
<1>1. VirtualStakingMaxCapLimits(b).infos = infos
  BY DEF VirtualStakingMaxCapLimits
<1>2. /\ S \in SUBSET Contracts /\ IsFiniteSet(Contracts) /\ IsFiniteSet(S)
      /\ \A c \in Contracts : t[c] \in Int
      /\ \A c \in Contracts \ S : t[c] = 0
      /\ b.minted = Sum(t, Contracts)
  BY ConstantsAssumption, FS_Subset DEF Books, BookRecord
<1>3. DOMAIN infos = S
  OBVIOUS
<1>4. \A c \in S : f[c] = t[c]
  BY DEF Info, GetTotalDelegated
<1>5. SumOver(S, LAMBDA c : infos[c].delegated) = Sum(f, S)
  <2> HIDE DEF S, infos
  <2> QED BY <1>2, DelegatedSum
<1> HIDE DEF f, t, S
<1>6. Sum(f, S) = Sum(t, S)
  BY <1>2, <1>4, SumAgree
<1>7. Sum(t, S) = Sum(t, Contracts)
  BY <1>2, SumSupport
<1>8. SumOver(S, LAMBDA c : infos[c].delegated) = b.minted
  BY <1>2, <1>5, <1>6, <1>7
<1> QED BY <1>1, <1>3, <1>8 DEF SumOver

-----------------------------------------------------------------------------
(* Steps of the writers.                                                   *)

\* Books before anything happened are in order.
LEMMA EmptyBooksOK == EmptyBooks \in Books
<1> DEFINE z == [c \in Contracts |-> 0]
<1>1. IsFiniteSet(Contracts)
  BY ConstantsAssumption
<1>2. Sum(z, Contracts) = 0
  <2>1. \A c \in Contracts : z[c] = 0
    OBVIOUS
  <2> HIDE DEF z
  <2>2. Sum(z, Contracts) = Cardinality(Contracts) * 0
    BY <1>1, <2>1, SumConst
  <2>3. Cardinality(Contracts) \in Nat
    BY <1>1, FS_CardinalityType
  <2> QED BY <2>2, <2>3
<1>3. EmptyBooks \in BookRecord
  BY DEF EmptyBooks, BookRecord
<1>4. EmptyBooks.minted = Sum(EmptyBooks.total, Contracts)
  BY <1>2 DEF EmptyBooks
<1> QED BY <1>3, <1>4 DEF Books, EmptyBooks

\* A cap leaves the totals alone.
LEMMA CapBooksOK ==
    ASSUME NEW b \in Books, NEW c \in Contracts, NEW amount \in Nat
    PROVE  [b EXCEPT !.capSet = @ \cup {c}, !.cap[c] = amount] \in Books
<1> DEFINE n == [b EXCEPT !.capSet = @ \cup {c}, !.cap[c] = amount]
<1>1. b \in BookRecord /\ b.minted = Sum(b.total, Contracts)
  BY DEF Books
<1>2. /\ n.capSet = b.capSet \cup {c}
      /\ n.cap = [b.cap EXCEPT ![c] = amount]
      /\ n.total = b.total /\ n.minted = b.minted
      /\ n \in BookRecord
  BY <1>1 DEF BookRecord
<1>3. \A d \in Contracts \ n.capSet : n.cap[d] = 0 /\ n.total[d] = 0
  BY <1>1, <1>2 DEF Books, BookRecord
<1>4. n.minted = Sum(n.total, Contracts)
  BY <1>1, <1>2
<1> HIDE DEF n
<1>5. n \in Books
  BY <1>2, <1>3, <1>4 DEF Books
<1> QED BY <1>5 DEF n

\* A total and what was minted move together, for a contract with a cap.
LEMMA TotalBooksOK ==
    ASSUME NEW b \in Books, NEW d \in Contracts, d \in b.capSet,
           NEW k \in Int, b.total[d] + k \in Nat, NEW n,
           n = [b EXCEPT !.total[d] = @ + k, !.minted = @ + k]
    PROVE  n \in Books
<1> DEFINE f == b.total
           e == n.total
<1>1. b \in BookRecord /\ b.minted = Sum(f, Contracts)
  BY DEF Books
<1>a. b.total \in [Contracts -> Nat] /\ b.total[d] \in Nat /\ b.minted \in Int
  BY <1>1 DEF BookRecord
<1>b. /\ n.capSet = b.capSet /\ n.cap = b.cap
      /\ n.total = [b.total EXCEPT ![d] = b.total[d] + k]
      /\ n.minted = b.minted + k
  BY <1>1 DEF BookRecord
<1>c. n.total \in [Contracts -> Nat] /\ n.minted \in Int
  BY <1>a, <1>b
<1>d. n = [capSet |-> n.capSet, cap |-> n.cap, total |-> n.total, minted |-> n.minted]
  BY <1>1 DEF BookRecord
<1>e. n \in BookRecord
  BY <1>1, <1>b, <1>c, <1>d DEF BookRecord
<1>2. /\ n.capSet = b.capSet /\ n.cap = b.cap
      /\ n.total = [b.total EXCEPT ![d] = b.total[d] + k]
      /\ n.minted = b.minted + k
      /\ n \in BookRecord
  BY <1>b, <1>e
<1>3. \A c \in Contracts \ n.capSet : n.cap[c] = 0 /\ n.total[c] = 0
  BY <1>1, <1>2 DEF Books, BookRecord
<1>4. /\ \A c \in Contracts : f[c] \in Int /\ e[c] \in Int
      /\ \A c \in Contracts \ {d} : e[c] = f[c]
      /\ e[d] = f[d] + k
  BY <1>1, <1>2 DEF BookRecord
<1>5. IsFiniteSet(Contracts)
  BY ConstantsAssumption
<1>6. n.minted = Sum(e, Contracts)
  <2>1. b.minted \in Int
    BY <1>1 DEF BookRecord
  <2>2. n.minted = b.minted + k /\ b.minted = Sum(f, Contracts)
    BY <1>1, <1>2
  <2> HIDE DEF f, e
  <2>3. Sum(e, Contracts) = Sum(f, Contracts) + e[d] - f[d]
    BY <1>4, <1>5, SumUpdate
  <2>4. Sum(f, Contracts) \in Int
    BY <2>1, <2>2
  <2> QED BY <1>4, <2>2, <2>3, <2>4
<1> QED BY <1>2, <1>3, <1>6 DEF Books

-----------------------------------------------------------------------------
(* Steps of a transaction.                                                 *)

\* Only a good bond status answer carries amounts, those of the books asked.
LEMMA BondStatusAnswer ==
    ASSUME NEW b, NEW r \in QueryRequests,
           "info" \in DOMAIN ChainedCustomQuerier(b, r)
    PROVE  ChainedCustomQuerier(b, r).info = Info(b, r.addr)
<1> DEFINE q == ChainedCustomQuerier(b, r)
           i == Info(b, r.addr)
<1>1. CASE r.kind \in {"not custom", "no virtual_stake"}
  <2>1. q = [err |-> "ok", by |-> "next handler"]
    BY <1>1 DEF ChainedCustomQuerier
  <2> QED BY <2>1
<1>2. CASE r.kind = "malformed" \/ (r.kind = "bond_status" /\ ~ValidAddress(r.addr))
  <2>1. q = [err |-> "invalid", by |-> "mesh-security"]
    BY <1>2 DEF ChainedCustomQuerier
  <2> QED BY <2>1
<1>3. CASE r.kind = "no variant"
  <2>1. q = [err |-> "unsupported", by |-> "mesh-security"]
    BY <1>3 DEF ChainedCustomQuerier
  <2> QED BY <2>1
<1>4. CASE r.kind = "slash_ratio"
  <2>1. q = [err |-> "ok", by |-> "mesh-security"]
    BY <1>4 DEF ChainedCustomQuerier
  <2> QED BY <2>1
<1>5. CASE r.kind = "bond_status" /\ ValidAddress(r.addr)
  <2>1. q = [err |-> "ok", by |-> "mesh-security", info |-> i]
    BY <1>5 DEF ChainedCustomQuerier
  <2> QED BY <2>1
<1>6. r.kind \in {"bond_status", "not custom", "malformed", "no virtual_stake",
                  "slash_ratio", "no variant"}
  BY DEF QueryRequests
<1> QED BY <1>1, <1>2, <1>3, <1>4, <1>5, <1>6

\* The invariant for the transaction.
TxOK == tx = NoTx \/ (tx \in TxRecord /\ RoomKnown(tx))

\* Cap and total of a contract are whole numbers.
LEMMA BooksNumbers ==
    ASSUME NEW b \in Books, NEW c \in Contracts
    PROVE  GetMaxCapLimit(b, c) \in Nat /\ GetTotalDelegated(b, c) \in Nat
BY DEF Books, BookRecord, GetMaxCapLimit, GetTotalDelegated

\* A contract that asks for its bond status gets it right.
LEMMA HandleQueryOK ==
    ASSUME TxOK, NEW r \in QueryRequests, HandleQuery(r)
    PROVE  TxOK'
<1> DEFINE q == ChainedCustomQuerier(tx.books, r)
           asked == "info" \in DOMAIN q /\ r.addr = tx.contract
           room == IF asked THEN q.info.cap - q.info.delegated ELSE tx.room
<1>1. tx \in TxRecord /\ RoomKnown(tx)
  BY DEF TxOK, HandleQuery, InTx
<1>2. tx' = [tx EXCEPT !.msgs = @ + 1, !.room = room]
  BY DEF HandleQuery
<1>3. tx.books \in Books /\ tx.contract \in Contracts /\ tx.msgs \in Int /\ tx.room \in Int
  BY <1>1 DEF TxRecord
<1>4. asked => q.info.cap = GetMaxCapLimit(tx.books, tx.contract)
               /\ q.info.delegated = GetTotalDelegated(tx.books, tx.contract)
  <2> SUFFICES ASSUME asked
               PROVE  q.info.cap = GetMaxCapLimit(tx.books, tx.contract)
                      /\ q.info.delegated = GetTotalDelegated(tx.books, tx.contract)
    OBVIOUS
  <2>1. q.info = Info(tx.books, tx.contract)
    BY BondStatusAnswer
  <2> QED BY <2>1 DEF Info
<1>5. room \in Int
  BY <1>3, <1>4, BooksNumbers
<1> HIDE DEF q
<1>6. asked => room = GetMaxCapLimit(tx.books, tx.contract)
                        - GetTotalDelegated(tx.books, tx.contract)
  BY <1>4
<1>7. ~asked => room = tx.room
  OBVIOUS
<1> HIDE DEF asked, room
<1>a. tx' = [contract |-> tx.contract, books |-> tx.books, room |-> room,
             msgs |-> tx.msgs + 1]
  BY <1>1, <1>2 DEF TxRecord
<1>8. /\ tx' \in TxRecord
      /\ tx'.room = room /\ tx'.books = tx.books /\ tx'.contract = tx.contract
  <2>1. tx.msgs + 1 \in Int
    BY <1>3
  <2> QED BY <1>a, <1>3, <1>5, <2>1 DEF TxRecord
<1>9. RoomKnown(tx)'
  BY <1>1, <1>6, <1>7, <1>8 DEF RoomKnown, GetMaxCapLimit, GetTotalDelegated, HasMaxCapLimit
<1> QED BY <1>8, <1>9 DEF TxOK

\* The books of a transaction after d's total moved by k, and the room.
LEMMA TxMoveOK ==
    ASSUME TxOK, InTx, NEW d \in Contracts, d \in tx.books.capSet,
           NEW k \in Int, tx.books.total[d] + k \in Nat, NEW room \in Int,
           tx'.contract = tx.contract, tx'.msgs \in Int,
           tx'.books = [tx.books EXCEPT !.total[d] = @ + k, !.minted = @ + k],
           tx'.room = room,
           tx' = [contract |-> tx'.contract, books |-> tx'.books,
                  room |-> tx'.room, msgs |-> tx'.msgs],
           room # Unknown => tx.room # Unknown /\
               room = (IF d = tx.contract THEN tx.room - k ELSE tx.room)
    PROVE  TxOK'
<1> DEFINE b == tx.books
           n == tx'.books
           c == tx.contract
<1>1. tx \in TxRecord /\ RoomKnown(tx)
  BY DEF TxOK, InTx
<1>2. b \in Books /\ c \in Contracts /\ tx.room \in Int
  BY <1>1 DEF TxRecord
<1>3. n \in Books
  BY <1>2, TotalBooksOK
<1>4. tx' \in TxRecord
  BY <1>2, <1>3 DEF TxRecord
<1>5. /\ n.capSet = b.capSet /\ n.cap = b.cap
      /\ n.total = [b.total EXCEPT ![d] = b.total[d] + k]
      /\ b.total \in [Contracts -> Nat]
  BY <1>2 DEF Books, BookRecord
<1>6. n.total[c] = IF d = c THEN b.total[c] + k ELSE b.total[c]
  BY <1>2, <1>5
<1>7. GetMaxCapLimit(n, c) = GetMaxCapLimit(b, c)
  BY <1>5 DEF GetMaxCapLimit, HasMaxCapLimit
<1>8. GetMaxCapLimit(b, c) \in Nat /\ b.total[c] \in Nat
  BY <1>2, BooksNumbers DEF GetTotalDelegated
<1>9. tx.room # Unknown => tx.room = GetMaxCapLimit(b, c) - b.total[c]
  BY <1>1 DEF RoomKnown, GetTotalDelegated
<1>10. room # Unknown => room = GetMaxCapLimit(n, c) - n.total[c]
  <2> HIDE DEF b, n, c
  <2>1. CASE d = c
    BY <1>2, <1>6, <1>7, <1>8, <1>9, <2>1 DEF c
  <2>2. CASE d # c
    BY <1>2, <1>6, <1>7, <1>8, <1>9, <2>2 DEF c
  <2> QED BY <2>1, <2>2
<1>11. RoomKnown(tx)'
  BY <1>10 DEF RoomKnown, GetTotalDelegated, GetMaxCapLimit, HasMaxCapLimit, Unknown
<1> QED BY <1>4, <1>11 DEF TxOK

\* A bond message takes from the room what it adds to the total.
LEMMA BondOK ==
    ASSUME TxOK, NEW d \in Contracts, NEW amt \in Amounts, Bond(d, amt)
    PROVE  TxOK'
<1> DEFINE room == IF d = tx.contract /\ tx.room # Unknown THEN tx.room - amt ELSE tx.room
<1>1. InTx /\ tx \in TxRecord
  BY DEF TxOK, InTx, Bond
<1>2. /\ tx.books \in Books /\ tx.contract \in Contracts
      /\ tx.msgs \in Int /\ tx.room \in Int /\ amt \in Nat
  BY <1>1, ConstantsAssumption DEF TxRecord
<1>3. d \in tx.books.capSet /\ tx.books.total[d] \in Nat
  BY <1>2, BooksNumbers DEF Bond, BondAllowed, HasMaxCapLimit, GetTotalDelegated
<1>4. tx' = [tx EXCEPT !.msgs = @ + 1,
                !.books.total[d] = @ + amt, !.books.minted = @ + amt,
                !.room = IF d = tx.contract /\ @ # Unknown THEN @ - amt ELSE @]
  BY DEF Bond
<1>5. /\ tx'.contract = tx.contract
      /\ tx'.msgs = tx.msgs + 1
      /\ tx'.room = room
      /\ tx' = [contract |-> tx'.contract, books |-> tx'.books,
                room |-> tx'.room, msgs |-> tx'.msgs]
  BY <1>1, <1>4 DEF TxRecord
<1>6. tx'.books = [tx.books EXCEPT !.total[d] = @ + amt, !.minted = @ + amt]
  BY <1>1, <1>2, <1>4 DEF TxRecord, Books, BookRecord
<1>7. /\ room \in Int
      /\ room # Unknown => tx.room # Unknown /\
             room = (IF d = tx.contract THEN tx.room - amt ELSE tx.room)
  BY <1>2 DEF Unknown
<1>8. amt \in Int /\ tx.books.total[d] + amt \in Nat /\ tx'.msgs \in Int
  BY <1>2, <1>3, <1>5
<1> HIDE DEF room
<1> QED BY <1>1, <1>3, <1>5, <1>6, <1>7, <1>8, TxMoveOK

\* An unbond message lowers the total by what is released, and a contract that
\* unbonds itself has to ask again.
LEMMA UnbondOK ==
    ASSUME TxOK, NEW d \in Contracts, NEW amt \in Amounts,
           NEW released \in Amounts \cup {0}, Unbond(d, amt, released)
    PROVE  TxOK'
<1> DEFINE room == IF d = tx.contract THEN Unknown ELSE tx.room
           k == 0 - released
<1>1. InTx /\ tx \in TxRecord
  BY DEF TxOK, InTx, Unbond
<1>2. /\ tx.books \in Books /\ tx.contract \in Contracts
      /\ tx.msgs \in Int /\ tx.room \in Int /\ amt \in Nat /\ released \in Nat
  BY <1>1, ConstantsAssumption DEF TxRecord
<1>3. /\ d \in tx.books.capSet /\ tx.books.total[d] \in Nat
      /\ tx.books.minted \in Int
      /\ released <= amt /\ amt <= tx.books.total[d]
  BY <1>2, BooksNumbers DEF Unbond, UnbondAllowed, HasMaxCapLimit, GetTotalDelegated,
     Books, BookRecord
<1>4. tx' = [tx EXCEPT !.msgs = @ + 1,
                !.books.total[d] = @ - released, !.books.minted = @ - released,
                !.room = IF d = tx.contract THEN Unknown ELSE @]
  BY DEF Unbond
<1>5. /\ tx'.contract = tx.contract
      /\ tx'.msgs = tx.msgs + 1
      /\ tx'.room = room
      /\ tx' = [contract |-> tx'.contract, books |-> tx'.books,
                room |-> tx'.room, msgs |-> tx'.msgs]
  BY <1>1, <1>4 DEF TxRecord
<1>6. tx'.books = [tx.books EXCEPT !.total[d] = @ - released, !.minted = @ - released]
  BY <1>1, <1>2, <1>4 DEF TxRecord, Books, BookRecord
<1>7. tx'.books = [tx.books EXCEPT !.total[d] = @ + k, !.minted = @ + k]
  <2>1. /\ tx.books.total[d] + k = tx.books.total[d] - released
        /\ tx.books.minted + k = tx.books.minted - released
    BY <1>2, <1>3
  <2> HIDE DEF k
  <2> QED BY <1>6, <2>1
<1>8. /\ room \in Int
      /\ room # Unknown => tx.room # Unknown /\
             room = (IF d = tx.contract THEN tx.room - k ELSE tx.room)
  BY <1>2 DEF Unknown
<1>9. k \in Int /\ tx.books.total[d] + k \in Nat /\ tx'.msgs \in Int
  BY <1>2, <1>3, <1>5
<1> HIDE DEF room, k
<1> QED BY <1>1, <1>3, <1>5, <1>7, <1>8, <1>9, TxMoveOK

-----------------------------------------------------------------------------
(* Steps of the clients.                                                   *)

\* A question on its way.
LEMMA InvokeOK ==
    ASSUME NEW kind \in Kinds, NEW addr \in Addresses
    PROVE  ClientOK(Invoke(kind, addr), states)
BY DEF ClientOK, Invoke, SentRecord

\* The fields of a reply.
LEMMA ReplyFields ==
    ASSUME NEW stage, NEW kind, NEW addr, NEW h, NEW reply
    PROVE  LET x == Reply(stage, kind, addr, h, reply)
           IN  /\ x.stage = stage /\ x.kind = kind /\ x.addr = addr
               /\ x.at = h /\ x.reply = reply
BY DEF Reply

\* What a node said about a state stays so when later blocks follow.
LEMMA ToldLater ==
    ASSUME NEW ss \in Seq(Books), NEW b \in Books, NEW x, ClientOK(x, ss)
    PROVE  ClientOK(x, Append(ss, b))
<1> DEFINE tt == Append(ss, b)
<1>1. /\ Len(tt) = Len(ss) + 1 /\ Len(ss) \in Nat
      /\ \A h \in 1..Len(ss) : tt[h] = ss[h]
  OBVIOUS
<1> HIDE DEF tt
<1>2. \A h \in 1..Len(ss) : h \in 1..Len(tt)
  BY <1>1
<1>3. Told(x, ss) => Told(x, tt)
  BY <1>1, <1>2 DEF Told
<1> QED BY <1>3 DEF ClientOK, Replied, tt

\* The invariant for the clients.
ClientsOK ==
    /\ client = [cl \in Clients |-> client[cl]]
    /\ \A cl \in Clients : ClientOK(client[cl], states)

\* It is enough to look at the client that moved.
LEMMA ClientMove ==
    ASSUME ClientsOK, NEW cl \in Clients, NEW x, ClientOK(x, states),
           client' = [client EXCEPT ![cl] = x], UNCHANGED states
    PROVE  ClientsOK'
<1>1. client' = [k \in Clients |-> IF k = cl THEN x ELSE client[k]]
  BY DEF ClientsOK
<1>2. client' = [k \in Clients |-> client'[k]]
  BY <1>1
<1>3. \A k \in Clients : ClientOK(client'[k], states)
  BY <1>1 DEF ClientsOK
<1>4. \A k \in Clients : ClientOK(client'[k], states')
  BY <1>3
<1> QED BY <1>2, <1>4 DEF ClientsOK, ClientOK, Replied, Told

\* Every step of a client keeps the invariant (querier.go, the commands and
\* the gateway).
LEMMA ClientStepOK ==
    ASSUME QueryInv, NEW cl \in Clients, ClientStep(cl)
    PROVE  ClientsOK'
<1>0. ClientsOK
  BY DEF QueryInv, ClientsOK
<1>a. BadAddress \in Addresses
  BY DEF Addresses
<1>b. ASSUME NEW x, ClientOK(x, states), Ask(cl, x) PROVE ClientsOK'
  BY <1>0, <1>b, ClientMove DEF Ask
<1>c. ASSUME NEW kind \in Kinds, NEW addr \in Addresses, Ask(cl, Invoke(kind, addr))
      PROVE  ClientsOK'
  BY <1>b, <1>c, InvokeOK
<1>1. ASSUME NEW addr \in Addresses, GetCmdQueryMaxCapLimit(cl, addr)
      PROVE  ClientsOK'
  <2>1. CASE ValidAddress(addr)
    <3>1. "limit" \in Kinds /\ Ask(cl, Invoke("limit", addr))
      BY <1>1, <2>1 DEF GetCmdQueryMaxCapLimit, Kinds
    <3> QED BY <1>c, <3>1
  <2>2. CASE ~ValidAddress(addr)
    <3> DEFINE x == Reply("done", "limit", addr, 0, [err |-> "address"])
    <3>1. Ask(cl, x)
      BY <1>1, <2>2 DEF GetCmdQueryMaxCapLimit
    <3>2. /\ x.stage = "done" /\ x.kind = "limit" /\ x.addr = addr
          /\ x.at = 0 /\ x.reply = [err |-> "address"]
      BY ReplyFields
    <3>3. Told(x, states)
      BY <3>2 DEF Told
    <3>4. ClientOK(x, states)
      <4>1. x = Reply(x.stage, x.kind, x.addr, x.at, x.reply)
        BY <3>2
      <4> QED BY <3>2, <3>3, <4>1 DEF ClientOK, Replied, Kinds
    <3> HIDE DEF x
    <3> QED BY <1>b, <3>1, <3>4
  <2> QED BY <2>1, <2>2
<1>2. ASSUME GetCmdQueryMaxCapLimits(cl) PROVE ClientsOK'
  <2>1. "limits" \in Kinds
    BY DEF Kinds
  <2> QED BY <1>a, <1>c, <1>2, <2>1 DEF GetCmdQueryMaxCapLimits
<1>3. ASSUME GetCmdQueryParams(cl) PROVE ClientsOK'
  <2>1. "params" \in Kinds
    BY DEF Kinds
  <2> QED BY <1>a, <1>c, <1>3, <2>1 DEF GetCmdQueryParams
<1>4. ASSUME RegisterQueryHandlerClient(cl) PROVE ClientsOK'
  <2>1. "limit" \in Kinds /\ "limits" \in Kinds /\ "params" \in Kinds
    BY DEF Kinds
  <2> QED BY <1>a, <1>c, <1>4, <2>1
       DEF RegisterQueryHandlerClient, request_Query_VirtualStakingMaxCapLimit_0,
           request_Query_VirtualStakingMaxCapLimits_0, request_Query_Params_0
<1>5. ASSUME NEW h \in DOMAIN states, Serve(cl, h) PROVE ClientsOK'
  <2> DEFINE y == client[cl]
             x == Reply("served", y.kind, y.addr, h,
                        Handler(states[h], y.kind, y.addr))
  <2>1. y \in SentRecord
    <3>1. y.stage = "sent" /\ ClientOK(y, states)
      BY <1>0, <1>5 DEF Serve, ClientsOK
    <3>2. "sent" \notin {"served", "done"} /\ Idle.stage = "idle" /\ "idle" # "sent"
      BY DEF Idle
    <3> QED BY <3>1, <3>2 DEF ClientOK, Replied
  <2>2. client' = [client EXCEPT ![cl] = x] /\ UNCHANGED states
    BY <1>5 DEF Serve
  <2>3. y.kind \in Kinds /\ y.addr \in Addresses
    BY <2>1 DEF SentRecord
  <2>4. /\ x.stage = "served" /\ x.kind = y.kind /\ x.addr = y.addr
        /\ x.at = h /\ x.reply = Handler(states[h], y.kind, y.addr)
    BY ReplyFields
  <2>5. h \in 1..Len(states)
    BY DEF QueryInv
  <2>6. Told(x, states)
    BY <2>4, <2>5 DEF Told
  <2>7. ClientOK(x, states)
    <3>1. x = Reply(x.stage, x.kind, x.addr, x.at, x.reply)
      BY <2>4
    <3> QED BY <2>3, <2>4, <2>6, <3>1 DEF ClientOK, Replied
  <2> HIDE DEF x
  <2> QED BY <1>0, <2>2, <2>7, ClientMove
<1>6. ASSUME NEW arrives \in BOOLEAN, Receive(cl, arrives) PROVE ClientsOK'
  <2> DEFINE y == client[cl]
             reply == IF arrives THEN y.reply ELSE [err |-> "unavailable"]
             x == Reply("done", y.kind, y.addr, y.at, reply)
  <2>1. Replied(y, states)
    <3>1. y.stage = "served" /\ ClientOK(y, states)
      BY <1>0, <1>6 DEF Receive, ClientsOK
    <3>2. y # Idle /\ y \notin SentRecord
      BY <3>1 DEF Idle, SentRecord
    <3> QED BY <3>1, <3>2 DEF ClientOK
  <2>2. client = [k \in Clients |-> client[k]]
    BY <1>0 DEF ClientsOK
  <2>3. client' = [client EXCEPT ![cl].stage = "done", ![cl].reply = reply]
        /\ UNCHANGED states
    BY <1>6 DEF Receive
  <2>4. client' = [client EXCEPT ![cl] = [y EXCEPT !.stage = "done", !.reply = reply]]
    <3> HIDE DEF reply
    <3> QED BY <2>2, <2>3
  <2>5. [y EXCEPT !.stage = "done", !.reply = reply] = x
    <3> HIDE DEF reply, y
    <3>1. y = [stage |-> y.stage, kind |-> y.kind, addr |-> y.addr,
               at |-> y.at, reply |-> y.reply]
      BY <2>1 DEF Replied, Reply
    <3> DEFINE e == [y EXCEPT !.stage = "done", !.reply = reply]
    <3>2. y \in [stage : {y.stage}, kind : {y.kind}, addr : {y.addr},
                 at : {y.at}, reply : {y.reply}]
      BY <3>1
    <3>3. DOMAIN e = {"stage", "kind", "addr", "at", "reply"}
      BY <3>2
    <3>4. /\ e.stage = "done" /\ e.kind = y.kind /\ e.addr = y.addr
          /\ e.at = y.at /\ e.reply = reply
      BY <3>2
    <3>5. e = [f \in DOMAIN e |-> e[f]]
      OBVIOUS
    <3> HIDE DEF e
    <3>6. e = x
      BY <3>3, <3>4, <3>5 DEF Reply
    <3> QED BY <3>6 DEF e
  <2>6. client' = [client EXCEPT ![cl] = x]
    BY <2>4, <2>5
  <2>7. /\ x.stage = "done" /\ x.kind = y.kind /\ x.addr = y.addr
        /\ x.at = y.at /\ x.reply = reply
    BY ReplyFields
  <2>8. Told(x, states)
    <3>1. CASE arrives
      BY <2>1, <2>7, <3>1 DEF Told, Replied
    <3>2. CASE ~arrives
      <4>1. x.reply.err = "unavailable"
        BY <2>7, <3>2
      <4> QED BY <4>1 DEF Told
    <3> QED BY <3>1, <3>2
  <2>9. ClientOK(x, states)
    <3>1. x = Reply(x.stage, x.kind, x.addr, x.at, x.reply)
      BY <2>7
    <3> QED BY <2>1, <2>7, <2>8, <3>1 DEF ClientOK, Replied
  <2> HIDE DEF x
  <2> QED BY <1>0, <2>3, <2>6, <2>9, ClientMove
<1>7. ASSUME Forget(cl) PROVE ClientsOK'
  <2>1. ClientOK(Idle, states)
    BY DEF ClientOK
  <2> QED BY <1>0, <1>7, <2>1, ClientMove DEF Forget
<1> QED BY <1>1, <1>2, <1>3, <1>4, <1>5, <1>6, <1>7 DEF ClientStep

-----------------------------------------------------------------------------
(* The invariant holds.                                                    *)

\* It holds at genesis.
LEMMA QueryInit == Init => QueryInv
<1> SUFFICES ASSUME Init PROVE QueryInv
  OBVIOUS
<1>1. states \in Seq(Books) /\ Len(states) >= 1 /\ block \in Books
  BY EmptyBooksOK DEF Init
<1>2. tx = NoTx
  BY DEF Init
<1>3. client = [cl \in Clients |-> client[cl]] /\ \A cl \in Clients : client[cl] = Idle
  BY DEF Init
<1>4. \A cl \in Clients : ClientOK(client[cl], states)
  BY <1>3 DEF ClientOK
<1> QED BY <1>1, <1>2, <1>3, <1>4 DEF QueryInv

\* Every step keeps it.
LEMMA QueryStep == QueryInv /\ [Next]_vars => QueryInv'
<1> SUFFICES ASSUME QueryInv, [Next]_vars PROVE QueryInv'
  OBVIOUS
<1>a. /\ states \in Seq(Books) /\ Len(states) >= 1 /\ block \in Books
      /\ TxOK /\ ClientsOK
  BY DEF QueryInv, TxOK, ClientsOK
<1>b. ASSUME states' \in Seq(Books), Len(states') >= 1, block' \in Books,
             TxOK', ClientsOK'
      PROVE  QueryInv'
  BY <1>b DEF QueryInv, TxOK, ClientsOK
<1>c. ASSUME UNCHANGED <<states, client>> PROVE ClientsOK'
  BY <1>a, <1>c DEF ClientsOK, ClientOK, Replied, Told
<1>d. ASSUME UNCHANGED tx PROVE TxOK'
  BY <1>a, <1>d DEF TxOK, RoomKnown, GetMaxCapLimit, HasMaxCapLimit, GetTotalDelegated
<1>1. ASSUME NEW c \in Contracts, NEW amount \in CapAmounts, SetMaxCapLimit(c, amount)
      PROVE  QueryInv'
  <2>1. block' = [block EXCEPT !.capSet = @ \cup {c}, !.cap[c] = amount]
        /\ UNCHANGED <<states, tx, client>>
    BY <1>1 DEF SetMaxCapLimit
  <2>2. amount \in Nat
    BY ConstantsAssumption
  <2>3. block' \in Books
    BY <1>a, <2>1, <2>2, CapBooksOK
  <2> QED BY <1>a, <1>b, <1>c, <1>d, <2>1, <2>3
<1>2. ASSUME NEW c \in Contracts, CallContract(c) PROVE QueryInv'
  <2>1. /\ tx' = [contract |-> c, books |-> block, room |-> Unknown, msgs |-> 0]
        /\ UNCHANGED <<states, block, client>>
    BY <1>2 DEF CallContract
  <2>2. Unknown \in Int
    BY DEF Unknown
  <2>3. tx' \in TxRecord /\ tx'.room = Unknown
    BY <1>a, <2>1, <2>2 DEF TxRecord
  <2>4. TxOK'
    BY <2>3 DEF TxOK, RoomKnown, Unknown
  <2> QED BY <1>a, <1>b, <1>c, <2>1, <2>4
<1>3. ASSUME NEW r \in QueryRequests, HandleQuery(r) PROVE QueryInv'
  <2>1. UNCHANGED <<states, block, client>>
    BY <1>3 DEF HandleQuery
  <2>2. TxOK'
    BY <1>a, <1>3, HandleQueryOK
  <2> QED BY <1>a, <1>b, <1>c, <2>1, <2>2
<1>4. ASSUME NEW d \in Contracts, NEW amt \in Amounts, Bond(d, amt) PROVE QueryInv'
  <2>1. UNCHANGED <<states, block, client>>
    BY <1>4 DEF Bond
  <2>2. TxOK'
    BY <1>a, <1>4, BondOK
  <2> QED BY <1>a, <1>b, <1>c, <2>1, <2>2
<1>5. ASSUME NEW d \in Contracts, NEW amt \in Amounts,
             NEW released \in Amounts \cup {0}, Unbond(d, amt, released)
      PROVE  QueryInv'
  <2>1. UNCHANGED <<states, block, client>>
    BY <1>5 DEF Unbond
  <2>2. TxOK'
    BY <1>a, <1>5, UnbondOK
  <2> QED BY <1>a, <1>b, <1>c, <2>1, <2>2
<1>6. ASSUME NEW ok \in BOOLEAN, EndTx(ok) PROVE QueryInv'
  <2>1. InTx /\ tx' = NoTx /\ UNCHANGED <<states, client>>
        /\ block' = IF ok THEN tx.books ELSE block
    BY <1>6 DEF EndTx
  <2>2. tx.books \in Books
    BY <1>a, <2>1 DEF TxOK, InTx, TxRecord
  <2>3. block' \in Books
    BY <1>a, <2>1, <2>2
  <2>4. TxOK'
    BY <2>1 DEF TxOK, NoTx
  <2> QED BY <1>a, <1>b, <1>c, <2>1, <2>3, <2>4
<1>7. ASSUME Commit PROVE QueryInv'
  <2>1. states' = Append(states, block) /\ UNCHANGED <<block, tx, client>>
    BY <1>7 DEF Commit
  <2>2. states' \in Seq(Books) /\ Len(states') >= 1
    BY <1>a, <2>1
  <2>3. \A cl \in Clients : ClientOK(client[cl], states')
    BY <1>a, <2>1, ToldLater DEF ClientsOK
  <2>4. ClientsOK'
    BY <1>a, <2>1, <2>3 DEF ClientsOK, ClientOK, Replied, Told
  <2> QED BY <1>a, <1>b, <1>d, <2>1, <2>2, <2>4
<1>8. ASSUME NEW cl \in Clients, ClientStep(cl) PROVE QueryInv'
  <2>1. UNCHANGED <<states, block, tx>>
    BY <1>8 DEF ClientStep, GetCmdQueryMaxCapLimit, GetCmdQueryMaxCapLimits,
       GetCmdQueryParams, RegisterQueryHandlerClient,
       request_Query_VirtualStakingMaxCapLimit_0,
       request_Query_VirtualStakingMaxCapLimits_0, request_Query_Params_0,
       Ask, Serve, Receive, Forget
  <2>2. ClientsOK'
    BY <1>8, ClientStepOK
  <2> QED BY <1>a, <1>b, <1>d, <2>1, <2>2
<1>9. CASE UNCHANGED vars
  BY <1>9, <1>a, <1>b, <1>c, <1>d DEF vars
<1> QED BY <1>1, <1>2, <1>3, <1>4, <1>5, <1>6, <1>7, <1>8, <1>9 DEF Next

\* Books in order, committed answers and exact room in every state.
THEOREM QueryInductive == Spec => []QueryInv
BY QueryInit, QueryStep, PTL DEF Spec

\* A client's good reply is of one committed state.
LEMMA AnsweredFrom ==
    ASSUME QueryInv, NEW cl \in Clients, Answered(cl)
    PROVE  /\ states[client[cl].at] \in Books
           /\ client[cl].reply = Handler(states[client[cl].at], client[cl].kind,
                                         client[cl].addr)
<1> DEFINE x == client[cl]
<1>1. x.stage = "done" /\ x.reply.err = "ok" /\ ClientOK(x, states)
  BY DEF Answered, QueryInv
<1>2. x # Idle /\ x \notin SentRecord
  BY <1>1 DEF Idle, SentRecord
<1> HIDE DEF x
<1>3. /\ x.at \in 1..Len(states)
      /\ x.reply = Handler(states[x.at], x.kind, x.addr)
  BY <1>1, <1>2 DEF ClientOK, Replied, Told
<1>4. states[x.at] \in Books
  BY <1>3 DEF QueryInv
<1> QED BY <1>3, <1>4 DEF x

\* For all contracts, clients and heights asked for: the list of caps adds up to
\* the virtual tokens minted by then, however often caps were cut
\* (querier.go:36-52).
THEOREM ListsCoverSupply == Spec => []ListCoversVirtualSupply
<1>1. QueryInv => ListCoversVirtualSupply
  <2> SUFFICES ASSUME QueryInv, NEW cl \in Clients,
                      Answered(cl), client[cl].kind = "limits"
               PROVE  LET infos == client[cl].reply.infos
                      IN  SumOver(DOMAIN infos, LAMBDA c : infos[c].delegated)
                            = states[client[cl].at].minted
    BY DEF ListCoversVirtualSupply
  <2> DEFINE b == states[client[cl].at]
             infos == client[cl].reply.infos
             inf == VirtualStakingMaxCapLimits(b).infos
  <2>1. b \in Books /\ client[cl].reply = VirtualStakingMaxCapLimits(b)
    BY AnsweredFrom DEF Handler
  <2> HIDE DEF b
  <2>2. SumOver(DOMAIN inf, LAMBDA c : inf[c].delegated) = b.minted
    BY <2>1, ListIsComplete
  <2>3. infos = inf
    BY <2>1
  <2> HIDE DEF infos, inf
  <2>4. SumOver(DOMAIN infos, LAMBDA c : infos[c].delegated) = b.minted
    BY <2>2, <2>3 DEF SumOver, MapThenSumSet, MapThenFoldSet
  <2> QED BY <2>4 DEF infos, b
<1> QED BY <1>1, QueryInductive, PTL

\* For all contracts, amounts and lengths of a transaction: what a contract that
\* asked works out is what the cap check of Delegate then allows
\* (query_plugin.go, keeper.go Delegate).
THEOREM RoomExact == Spec => []RoomIsExact
<1>1. QueryInv => RoomIsExact
  <2> SUFFICES ASSUME QueryInv, InTx, tx.room # Unknown, NEW amt \in Amounts,
                      HasMaxCapLimit(tx.books, tx.contract)
               PROVE  amt <= tx.room <=> BondAllowed(tx.books, tx.contract, amt)
    BY DEF RoomIsExact
  <2>1. tx \in TxRecord /\ RoomKnown(tx)
    BY DEF QueryInv, InTx
  <2>2. tx.books \in Books /\ tx.contract \in Contracts
    BY <2>1 DEF TxRecord
  <2>3. /\ GetMaxCapLimit(tx.books, tx.contract) \in Nat
        /\ tx.books.total[tx.contract] \in Nat
    BY <2>2, BooksNumbers DEF GetTotalDelegated
  <2>4. tx.room = GetMaxCapLimit(tx.books, tx.contract) - tx.books.total[tx.contract]
    BY <2>1 DEF RoomKnown, GetTotalDelegated
  <2>5. amt \in Nat
    BY ConstantsAssumption
  <2> QED BY <2>3, <2>4, <2>5 DEF BondAllowed
<1> QED BY <1>1, QueryInductive, PTL
=============================================================================
