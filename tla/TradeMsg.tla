------------------------------ MODULE TradeMsg ------------------------------
(***************************************************************************)
(* The vocabulary the trader's components share: trade_msg.h, msg.h and    *)
(* protocol_utils.h.  Prices are natural numbers (multiples of the tick):  *)
(* the code's comparisons with a slack of 1e-5 are exact on them.          *)
(***************************************************************************)
EXTENDS Integers

CONSTANTS
  Strategies,    \* the strategy names of the trader's configuration
  Foreign,       \* a strategy_id the configuration does not list
  Tickers

StrategyIds == Strategies \union {Foreign}

Directions == {"buy", "sell"}

Offsets == {"open", "close", "close_today", "close_yesterday", "none"}

OrderTypes == {"market", "limit", "best", "fak", "fok"}

OppositeDirection(direction) == IF direction = "buy" THEN "sell" ELSE "buy"

IsOffsetOpen(offset) == offset = "open"

(* A mask test: kOffsetNone (9) shares the bit of kCloseYesterday (8).     *)
CloseOffsets == {"close", "close_today", "close_yesterday", "none"}

IsOffsetClose(offset) == offset \in CloseOffsets

(* TraderOrderReq with the fields of TraderCommand that SendOrder reads;   *)
(* mq is the strategy whose trade queue carried the command.               *)
OrderRequest ==
  [mq : Strategies, strategy : StrategyIds, ticker : Tickers,
   direction : Directions, offset : Offsets, type : OrderTypes,
   price : Nat, volume : Nat \ {0}, withoutCheck : BOOLEAN]

(* The position side an order works on: a close order the opposite one.    *)
SideOf(req) ==
  IF IsOffsetClose(req.offset) THEN OppositeDirection(req.direction)
                               ELSE req.direction

=============================================================================
