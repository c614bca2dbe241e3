----------------------------- MODULE MCHubMirror -----------------------------
(***************************************************************************)
(* Instances of HubMirror for TLC.  price: price_snapshots, its rows taken *)
(* whole; calls: a table re-paged on every connection whose upsert keeps   *)
(* the newer version, like cross_chain_calls; attest: an append-only table *)
(* such as attestation_responses; match: paged from zero by every drain.   *)
(***************************************************************************)
EXTENDS HubMirror

CONSTANTS price, calls, attest, match

MCAppended == {price, attest}
MCRepaged == {price, calls}
MCMatched == {match, price}
MCOnlyPrice == {price}
MCOnlyMatch == {match}
MCNone == {}

\* Their order in drainEveryTable.
MCDrainOrder == [t \in Tables |-> CASE t = match -> 1 [] t = calls -> 2
                                    [] t = attest -> 3 [] t = price -> 4]

Spending(close, rest, apply, live, refuse, resync) ==
  [f \in Faults |-> CASE f = "close" -> close [] f = "rest" -> rest
                      [] f = "apply" -> apply [] f = "live" -> live
                      [] f = "refuse" -> refuse [] f = "resync" -> resync]
With(revised, left) == [revised |-> revised, left |-> left]

\* The hub only appends: drains with failing requests and rows, a closed
\* socket, a live row that fails.
MCFaultyDrains == With({}, Spending(0, 1, 1, 0, 1, 0))
MCReconnects   == With({}, Spending(1, 0, 0, 0, 1, 0))
MCLiveFault    == With({}, Spending(0, 0, 0, 1, 0, 0))
MCAppending    == {MCFaultyDrains, MCReconnects, MCLiveFault}

\* The hub changes rows in place: behind a reconnect and a retry, a resync
\* and a refused frame, or the price table's buffer.
MCRepages  == With({calls}, Spending(1, 1, 0, 0, 0, 0))
MCResyncs  == With({calls}, Spending(0, 0, 0, 0, 1, 1))
MCReprices == With({price}, Spending(0, 0, 0, 0, 0, 0))

\* Every retry of a client that reconnects, over a table that is paged from
\* zero each time; a resync beside a failing apply or a refused row; a refused
\* row beside a failing request, apply and live row.
MCRetries == {With({match}, Spending(1, 1, 0, 1, 0, 0)),
              With({match}, Spending(0, 0, 1, 0, 0, 1)),
              With({match}, Spending(0, 0, 0, 0, 1, 1)),
              With({match}, Spending(0, 1, 1, 1, 1, 0))}
=============================================================================
