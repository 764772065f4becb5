--------------------------- MODULE MCVoucherClient ---------------------------
(* Small instances of OrderbookSocket: sequential and windowed streams over   *)
(* HTTP, with and without a store, against a provider that reports any        *)
(* cumulative; two streams over WebSockets, with disputes while they sign, at *)
(* any provider or at the order book's route.                                 *)
EXTENDS OrderbookSocket
=============================================================================
