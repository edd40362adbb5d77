------------------------------ MODULE MCPager ------------------------------
(* The modes that the connections of a run may choose, for Pager and Inv. *)
EXTENDS PagerInvariant

Mode(j, s) == [journal_mode |-> j, synchronous |-> s]

\* The default, and the mode that leaves the journal in its place.
SafeModes == {Mode("DELETE", "FULL"), Mode("PERSIST", "NORMAL")}

TruncateFull == {Mode("TRUNCATE", "FULL")}

DeleteOff == {Mode("DELETE", "OFF")}

PersistOff == {Mode("PERSIST", "OFF")}
=============================================================================
