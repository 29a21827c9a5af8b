---------------------------- MODULE MCModelStore ----------------------------
(* Small instances of the checkpoint store. *)
EXTENDS ModelStore

Opts(d, k, z, m) == [disk |-> d, keep |-> k, gz |-> z, max |-> m]

\* Memory only, the default disk store, a bounded cache, and a compressed
\* store that keeps nothing in memory
MCOptions == {Opts(FALSE, TRUE, FALSE, 1), Opts(TRUE, TRUE, FALSE, 0),
              Opts(TRUE, TRUE, FALSE, 1), Opts(TRUE, FALSE, TRUE, 0)}
=============================================================================
