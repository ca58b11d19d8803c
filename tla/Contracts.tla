------------------------------ MODULE Contracts ------------------------------
(***************************************************************************)
(* The contract list: the contract collector asks a gateway for all        *)
(* contracts, the gateway's callbacks push them on the ring of results,    *)
(* the collector stores them in a file, from which every program loads its *)
(* ContractTable.                                                          *)
(*                                                                         *)
(* CTP answers one query; XTP answers one query per exchange, the second   *)
(* asked a second after the first, and keeps a copy of what it pushes.  A  *)
(* string of a C++ object that was moved from is empty (libstdc++).        *)
(***************************************************************************)
EXTENDS Integers, Sequences, FiniteSets, SequencesExt

CONSTANTS
  Api,       \* "ctp" or "xtp"
  Lists,     \* for each query, the contracts the library answers it with
  MayFail,   \* may a request fail or be answered with an error
  Capacity   \* of the ring; 1024 in the code

ContractsAssumption ==
  /\ Api \in {"ctp", "xtp"} /\ MayFail \in BOOLEAN /\ Capacity \in Nat \ {0}
  /\ Len(Lists) = IF Api = "ctp" THEN 1 ELSE 2

VARIABLES
  main,       \* the collector: "asks", "reads", "stored" or "exit"
  sent,       \* the queries it has sent
  asked,      \* queries under way: the list and the parts answered
  failed,     \* was something answered with an error
  count,      \* query_count_ of the XTP quote API
  gathered,   \* qry_contract_res_
  pushing,    \* what the running callback still has to put on the ring
  results,    \* qry_result_rb_
  contracts,  \* what the collector has read
  table       \* the ContractTable loaded from the file

vars == <<main, sent, asked, failed, count, gathered, pushing, results, contracts, table>>

Contract(ticker, traded) == [ticker |-> ticker, traded |-> traded]
MovedFrom(contract) == [contract EXCEPT !.ticker = ""]

OnQueryContract(contract) == <<[kind |-> "contract", data |-> contract]>>
OnQueryContractEnd == <<[kind |-> "end", data |-> Contract("", FALSE)]>>

Init ==
  /\ main = "asks" /\ sent = 0
  /\ asked = <<>> /\ failed = FALSE
  /\ count = 0 /\ gathered = <<>>
  /\ pushing = <<>> /\ results = <<>>
  /\ contracts = <<>> /\ table = <<>>

Running == main \notin {"exit", "stored"}

-----------------------------------------------------------------------------
(* The collector's thread                                                  *)

QueryContracts ==
  /\ main = "asks"
  /\ \/ /\ asked' = Append(asked, [list |-> sent + 1, part |-> 0])
        /\ sent' = sent + 1
        /\ main' = IF sent' = Len(Lists) THEN "reads" ELSE "asks"
     \/ MayFail /\ UNCHANGED <<asked, sent>> /\ main' = "exit"
  /\ UNCHANGED <<failed, count, gathered, pushing, results, contracts, table>>

(* A contract that was moved from has lost its ticker, exchange and name.  *)
StringFields(contract) == IF contract.ticker = "" THEN 11 ELSE 14

(* LoadContractList: StringSplit leaves out empty fields, a line that then *)
(* has not 14 fields makes the load fail.                                  *)
LoadContractList(lines) ==
  IF \A i \in DOMAIN lines : StringFields(lines[i]) = 14 THEN lines ELSE <<>>

(* ContractTable::Init: the place in the list, from 1, is the ticker_id.   *)
TableOf(list) == [i \in DOMAIN list |-> [ticker |-> list[i].ticker, id |-> i]]

Collect ==
  /\ main = "reads" /\ results # <<>>
  /\ results' = Tail(results)
  /\ IF Head(results).kind = "end"
     THEN main' = "stored" /\ table' = TableOf(LoadContractList(contracts)) /\ UNCHANGED contracts
     ELSE contracts' = Append(contracts, Head(results).data) /\ UNCHANGED <<main, table>>
  /\ UNCHANGED <<sent, asked, failed, count, gathered, pushing>>

-----------------------------------------------------------------------------
(* Callbacks, on the library's thread: PutWithBlocking waits for room.     *)

Room == Len(results) < Capacity

PutWithBlocking ==
  /\ Running /\ pushing # <<>> /\ Room
  /\ results' = Append(results, Head(pushing)) /\ pushing' = Tail(pushing)
  /\ UNCHANGED <<main, sent, asked, failed, count, gathered, contracts, table>>

Part(error) ==
  /\ Running /\ pushing = <<>> /\ asked # <<>>
  /\ error => MayFail
  /\ failed' = (failed \/ error)

This == Lists[Head(asked).list][Head(asked).part + 1]
IsLast == Head(asked).part + 1 = Len(Lists[Head(asked).list])

Advance(over) ==
  asked' = IF over THEN Tail(asked) ELSE [asked EXCEPT ![1].part = @ + 1]

(* Fault: a part before the last is skipped, as in other answers.          *)
OnRspQryInstrumentLast(error) ==
  /\ Api = "ctp" /\ Part(error)
  /\ pushing' = IF error THEN OnQueryContractEnd
                ELSE IF IsLast THEN OnQueryContract(This) \o OnQueryContractEnd ELSE <<>>
  /\ Advance(error \/ IsLast)
  /\ UNCHANGED <<main, sent, count, gathered, results, contracts, table>>

OnRspQryInstrument(error) ==
  /\ Api = "ctp" /\ Part(error)
  /\ pushing' = IF error THEN OnQueryContractEnd
                ELSE OnQueryContract(This) \o (IF IsLast THEN OnQueryContractEnd ELSE <<>>)
  /\ Advance(error \/ IsLast)
  /\ UNCHANGED <<main, sent, count, gathered, results, contracts, table>>

Pushed(list) == FlattenSeq([i \in DOMAIN list |-> OnQueryContract(list[i])])

BothAnswered(n) == n = 2

(* A contract is moved into the copy and then pushed; the copy is pushed   *)
(* with the second answer and emptied with each.                           *)
OnQueryAllTickers(error) ==
  /\ Api = "xtp" /\ Part(error)
  /\ IF error
     THEN pushing' = OnQueryContractEnd /\ gathered' = <<>> /\ UNCHANGED count
     ELSE LET all == IF This.traded THEN Append(gathered, This) ELSE gathered
          IN  /\ count' = IF IsLast THEN count + 1 ELSE count
              /\ pushing' = (IF This.traded THEN OnQueryContract(MovedFrom(This)) ELSE <<>>)
                            \o (IF IsLast /\ BothAnswered(count')
                                THEN Pushed(all) \o OnQueryContractEnd ELSE <<>>)
              /\ gathered' = IF IsLast THEN <<>> ELSE all
  /\ Advance(error \/ IsLast)
  /\ UNCHANGED <<main, sent, results, contracts, table>>

Library ==
  \/ PutWithBlocking
  \/ \E error \in BOOLEAN : OnRspQryInstrument(error) \/ OnQueryAllTickers(error)

Collector == QueryContracts \/ Collect

Next == Collector \/ Library

Spec == Init /\ [][Next]_vars

(* Both threads run, and the library answers.                              *)
FairSpec == Spec /\ WF_vars(Collector) /\ WF_vars(Library)

-----------------------------------------------------------------------------
Listed == UNION {{Lists[l][i].ticker : i \in {j \in DOMAIN Lists[l] : Lists[l][j].traded}}
                   : l \in DOMAIN Lists}

TypeOK ==
  /\ main \in {"asks", "reads", "stored", "exit"}
  /\ Len(results) <= Capacity /\ Len(asked) <= Len(Lists)
  /\ count \in 0 .. Len(Lists)

(* The collector ends, however long the lists are for the ring, and        *)
(* whatever fails.                                                         *)
CollectorEnds == <>(main \in {"exit", "stored"})

(* Without errors the end is the last thing on the ring.                   *)
EndIsLast == main = "stored" /\ ~ failed => asked = <<>> /\ results = <<>> /\ pushing = <<>>

(* All contracts of the market reach the table, through the file.          *)
AllContracts ==
  main = "stored" /\ ~ failed => {table[i].ticker : i \in DOMAIN table} = Listed

(* A program that loads the table has all contracts, each once, or none.   *)
AllContractsOrNone ==
  main = "stored" /\ ~ failed /\ table # <<>> =>
    /\ {table[i].ticker : i \in DOMAIN table} = Listed
    /\ Len(table) = Cardinality(Listed)

(* get_by_index(get_by_ticker(t)->ticker_id) is the contract of t.         *)
TableAgrees ==
  \A i \in DOMAIN table :
    table[i].id \in DOMAIN table /\ table[table[i].id].ticker = table[i].ticker

=============================================================================
