------------------------------- MODULE Queries -------------------------------
(***************************************************************************)
(* Who reads the books of virtual staking, and when.                       *)
(*                                                                         *)
(* Clients ask a node over gRPC (client/cli/query.go, types/query.pb.go)   *)
(* or its HTTP gateway (types/query.pb.gw.go); keeper/querier.go answers   *)
(* from the state the node gives it: a committed one, the latest or that   *)
(* of the height the client asks for (baseapp, external).                  *)
(* Contracts ask from inside a transaction (keeper/query_plugin.go) and    *)
(* get the state of that transaction, its own writes included.             *)
(* The writers are the cap message and the bond and unbond messages, of    *)
(* which only the books kept by the keeper are modelled here.              *)
(***************************************************************************)
EXTENDS Integers, Sequences, FiniteSets, FiniteSetsExt

CONSTANTS
    Contracts,
    BadAddress,             \* a string that is no bech32 address
    CapAmounts, Amounts,
    TotalContractsMaxCap,   \* parameter of the module
    Clients,
    MaxHeight,              \* bound on the blocks
    MaxMsgs,                \* bound on the messages of a transaction
    MaxTxs                  \* bound on the transactions of a block

ASSUME ConstantsAssumption ==
    /\ IsFiniteSet(Contracts)
    /\ BadAddress \notin Contracts
    /\ CapAmounts \subseteq Nat /\ Amounts \subseteq Nat \ {0}
    /\ MaxHeight \in Nat /\ MaxMsgs \in Nat /\ MaxTxs \in Nat

VARIABLES
    states,    \* the committed states, the last one is the latest
    block,     \* the state of the block being executed
    tx,        \* the contract call being executed, or NoTx
    txs,       \* transactions of this block so far
    client     \* the query each client has under way, or the last one

vars == <<states, block, tx, txs, client>>

Addresses == Contracts \cup {BadAddress}

NoTx == [contract |-> BadAddress]
Idle == [stage |-> "idle"]

InTx == tx # NoTx
Unknown == -1000      \* a contract that has not asked yet

SumOver(S, f(_)) == MapThenSumSet(f, S)

-----------------------------------------------------------------------------
(* Reads of the keeper.                                                    *)

HasMaxCapLimit(b, addr) == addr \in b.capSet

\* A key that does not exist reads as zero.
GetMaxCapLimit(b, addr) == IF HasMaxCapLimit(b, addr) THEN b.cap[addr] ELSE 0

GetTotalDelegated(b, addr) == b.total[addr]

ValidAddress(addr) == addr # BadAddress

Info(b, addr) == [cap |-> GetMaxCapLimit(b, addr),
                  delegated |-> GetTotalDelegated(b, addr)]

\* The querier.
VirtualStakingMaxCapLimit(b, addr) ==
    IF ~ValidAddress(addr) THEN [err |-> "contract"]
    ELSE [err |-> "ok", infos |-> [c \in {addr} |-> Info(b, c)]]

M_VirtualStakingMaxCapLimits(b) ==
    [err |-> "ok", infos |-> [c \in {x \in b.capSet : b.cap[x] > 0} |-> Info(b, c)]]

\* One entry per stored cap, zero caps included.
VirtualStakingMaxCapLimits(b) ==
    [err |-> "ok", infos |-> [c \in b.capSet |-> Info(b, c)]]

Params == [err |-> "ok", maxCap |-> TotalContractsMaxCap]

\* The service handlers: decode, then call the querier.
Handler(b, kind, addr) ==
    CASE kind = "limit"  -> VirtualStakingMaxCapLimit(b, addr)
      [] kind = "limits" -> VirtualStakingMaxCapLimits(b)
      [] kind = "params" -> Params

-----------------------------------------------------------------------------
EmptyBooks == [capSet |-> {}, cap |-> [c \in Contracts |-> 0],
               total |-> [c \in Contracts |-> 0], minted |-> 0]

Init ==
    /\ states = <<EmptyBooks>> /\ block = EmptyBooks
    /\ tx = NoTx /\ txs = 0
    /\ client = [c \in Clients |-> Idle]

\* Governance, between the transactions of contracts.
SetMaxCapLimit(c, amount) ==
    /\ ~InTx /\ txs < MaxTxs
    /\ SumOver(block.capSet \ {c}, LAMBDA x : block.cap[x]) + amount
         <= TotalContractsMaxCap
    /\ block' = [block EXCEPT !.capSet = @ \cup {c}, !.cap[c] = amount]
    /\ txs' = txs + 1
    /\ UNCHANGED <<states, tx, client>>

\* A contract is called; its writes stay in the transaction until it ends.
CallContract(c) ==
    /\ ~InTx /\ txs < MaxTxs
    /\ tx' = [contract |-> c, books |-> block, room |-> Unknown, msgs |-> 0]
    /\ txs' = txs + 1
    /\ UNCHANGED <<states, block, client>>

EndTx(ok) ==
    /\ InTx
    /\ block' = IF ok THEN tx.books ELSE block
    /\ tx' = NoTx
    /\ UNCHANGED <<states, txs, client>>

Commit ==
    /\ ~InTx /\ Len(states) < MaxHeight
    /\ states' = Append(states, block)
    /\ txs' = 0
    /\ UNCHANGED <<block, tx, client>>

-----------------------------------------------------------------------------
(* Contract queries and messages.                                          *)

\* The requests ChainedCustomQuerier tells apart.
QueryRequests ==
    [kind : {"bond_status"}, addr : Addresses] \cup
    [kind : {"not custom", "malformed", "no virtual_stake", "slash_ratio",
             "no variant"}, addr : {BadAddress}]

M_ChainedCustomQuerier(b, r) ==
    IF r.kind = "bond_status" /\ ValidAddress(r.addr)
    THEN [err |-> "ok", by |-> "mesh-security", info |-> Info(block, r.addr)]
    ELSE [err |-> "unknown", by |-> "mesh-security"]

\* What is not for mesh-security goes down the chain of query handlers.
ChainedCustomQuerier(b, r) ==
    CASE r.kind \in {"not custom", "no virtual_stake"} ->
            [err |-> "ok", by |-> "next handler"]
      [] r.kind = "malformed" \/ (r.kind = "bond_status" /\ ~ValidAddress(r.addr)) ->
            [err |-> "invalid", by |-> "mesh-security"]
      [] r.kind = "no variant" -> [err |-> "unsupported", by |-> "mesh-security"]
      [] r.kind = "slash_ratio" -> [err |-> "ok", by |-> "mesh-security"]
      [] OTHER ->
            [err |-> "ok", by |-> "mesh-security", info |-> Info(b, r.addr)]

\* A contract asks for its own bond status and works out the room it has left;
\* any other query, or an error, tells it nothing about that.
HandleQuery(r) ==
    LET answer == ChainedCustomQuerier(tx.books, r)
    IN  /\ InTx /\ tx.msgs < MaxMsgs
        /\ tx' = [tx EXCEPT !.msgs = @ + 1,
                    !.room = IF "info" \in DOMAIN answer /\ r.addr = tx.contract
                             THEN answer.info.cap - answer.info.delegated
                             ELSE @]
        /\ UNCHANGED <<states, block, txs, client>>

\* The books after a bond message of contract d, called by this transaction.
BondAllowed(b, d, amt) ==
    /\ HasMaxCapLimit(b, d)
    /\ b.total[d] + amt <= GetMaxCapLimit(b, d)

Bond(d, amt) ==
    /\ InTx /\ tx.msgs < MaxMsgs
    /\ BondAllowed(tx.books, d, amt)
    /\ tx' = [tx EXCEPT !.msgs = @ + 1,
                !.books.total[d] = @ + amt, !.books.minted = @ + amt,
                !.room = IF d = tx.contract /\ @ # Unknown THEN @ - amt ELSE @]
    /\ UNCHANGED <<states, block, txs, client>>

UnbondAllowed(b, d, amt) == HasMaxCapLimit(b, d) /\ amt <= GetTotalDelegated(b, d)

\* What is released is up to x/staking: less than asked for after a slash,
\* nothing without a delegation.  The contract has to ask again to know it.
Unbond(d, amt, released) ==
    /\ InTx /\ tx.msgs < MaxMsgs
    /\ UnbondAllowed(tx.books, d, amt)
    /\ released <= amt
    /\ tx' = [tx EXCEPT !.msgs = @ + 1,
                !.books.total[d] = @ - released, !.books.minted = @ - released,
                !.room = IF d = tx.contract THEN Unknown ELSE @]
    /\ UNCHANGED <<states, block, txs, client>>

-----------------------------------------------------------------------------
(* Clients.                                                                *)

\* queryClient: a request on its way to the node.
Invoke(kind, addr) == [stage |-> "sent", kind |-> kind, addr |-> addr]

Ask(cl, request) ==
    /\ client[cl].stage = "idle"
    /\ client' = [client EXCEPT ![cl] = request]
    /\ UNCHANGED <<states, block, tx, txs>>

\* A reply, with the height of the state it was made from (0: from none).
Reply(stage, kind, addr, h, reply) ==
    [stage |-> stage, kind |-> kind, addr |-> addr, at |-> h, reply |-> reply]

\* The commands of the CLI; an address is checked before anything is sent.
GetCmdQueryMaxCapLimit(cl, addr) ==
    Ask(cl, IF ValidAddress(addr) THEN Invoke("limit", addr)
            ELSE Reply("done", "limit", addr, 0, [err |-> "address"]))

GetCmdQueryMaxCapLimits(cl) == Ask(cl, Invoke("limits", BadAddress))

GetCmdQueryParams(cl) == Ask(cl, Invoke("params", BadAddress))

\* The gateway; it forwards the path parameter as it is.
request_Query_VirtualStakingMaxCapLimit_0(cl, addr) ==
    Ask(cl, Invoke("limit", addr))

request_Query_VirtualStakingMaxCapLimits_0(cl) ==
    Ask(cl, Invoke("limits", BadAddress))

request_Query_Params_0(cl) == Ask(cl, Invoke("params", BadAddress))

RegisterQueryHandlerClient(cl) ==
    \/ \E addr \in Addresses :
          request_Query_VirtualStakingMaxCapLimit_0(cl, addr)
    \/ request_Query_VirtualStakingMaxCapLimits_0(cl)
    \/ request_Query_Params_0(cl)

\* The node answers from a committed state, by default the latest one.
Serve(cl, h) ==
    /\ client[cl].stage = "sent"
    /\ client' = [client EXCEPT ![cl] =
         Reply("served", @.kind, @.addr, h, Handler(states[h], @.kind, @.addr))]
    /\ UNCHANGED <<states, block, tx, txs>>

\* The answer arrives, or the connection broke.
Receive(cl, arrives) ==
    /\ client[cl].stage = "served"
    /\ client' = [client EXCEPT ![cl].stage = "done",
                    ![cl].reply = IF arrives THEN @ ELSE [err |-> "unavailable"]]
    /\ UNCHANGED <<states, block, tx, txs>>

\* The client is ready to ask again.
Forget(cl) ==
    /\ client[cl].stage = "done"
    /\ client' = [client EXCEPT ![cl] = Idle]
    /\ UNCHANGED <<states, block, tx, txs>>

ClientStep(cl) ==
    \/ \E addr \in Addresses : GetCmdQueryMaxCapLimit(cl, addr)
    \/ GetCmdQueryMaxCapLimits(cl)
    \/ GetCmdQueryParams(cl)
    \/ RegisterQueryHandlerClient(cl)
    \/ \E h \in DOMAIN states : Serve(cl, h)
    \/ \E arrives \in BOOLEAN : Receive(cl, arrives)
    \/ Forget(cl)

Next ==
    \/ \E c \in Contracts, amount \in CapAmounts : SetMaxCapLimit(c, amount)
    \/ \E c \in Contracts : CallContract(c)
    \/ \E r \in QueryRequests : HandleQuery(r)
    \/ \E d \in Contracts, amt \in Amounts : Bond(d, amt)
    \/ \E d \in Contracts, amt \in Amounts, released \in Amounts \cup {0} :
          Unbond(d, amt, released)
    \/ \E ok \in BOOLEAN : EndTx(ok)
    \/ Commit
    \/ \E cl \in Clients : ClientStep(cl)

Spec == Init /\ [][Next]_vars

-----------------------------------------------------------------------------
Answered(cl) == client[cl].stage = "done" /\ client[cl].reply.err = "ok"

\* The list of all caps accounts for every virtual token in the supply, those
\* of contracts whose cap was cut to zero included, at the height the answer is
\* of (IterateMaxCapLimit).
ListCoversVirtualSupply ==
    \A cl \in Clients :
        Answered(cl) /\ client[cl].kind = "limits" =>
            LET infos == client[cl].reply.infos
            IN  SumOver(DOMAIN infos, LAMBDA c : infos[c].delegated)
                    = states[client[cl].at].minted

\* A contract that asked for its bond status knows, until it unbonds, how much
\* the keeper lets it bond, whatever it bonds and the contracts it calls bond
\* and unbond in between: no planned bond is refused (query_plugin.go and the
\* cap check of Delegate agree on a state that is not committed yet).
RoomIsExact ==
    InTx /\ tx.room # Unknown =>
        \A amt \in Amounts :
            HasMaxCapLimit(tx.books, tx.contract) =>
                (amt <= tx.room <=> BondAllowed(tx.books, tx.contract, amt))
=============================================================================
