---------------------------- MODULE MCHttpExchange ----------------------------
(* Three pieces of body: with the header, below the limit, and above it.   *)
EXTENDS HttpExchange

MCBodyPieces == 3
MCDumpLimit == 1
=============================================================================
