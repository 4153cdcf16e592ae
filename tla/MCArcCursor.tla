----------------------------- MODULE MCArcCursor -----------------------------
(* The Arc cursor for TLC: a chain of a few blocks.                        *)
EXTENDS ArcCursor
===============================================================================
