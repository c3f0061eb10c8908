---------------------------- MODULE MCFleetRunner ----------------------------
(* Four servers; strategies that make the stages differ. *)
EXTENDS FleetRunner

Strategy(canary, size, pct, gated, partialOk) ==
    [canary_count |-> canary, wave_size |-> size, failure_threshold |-> pct,
     wave_gate |-> gated, count_partial_as_success |-> partialOk]

\* The defaults; a wave of two and one of one behind a gate; two canaries and a
\* wave with a low threshold and partial results accepted; more canaries than
\* servers.
MCStrategies == {Strategy(0, 0, 0, FALSE, FALSE), Strategy(1, 2, 50, TRUE, FALSE),
                 Strategy(2, 1, 40, FALSE, TRUE), Strategy(5, 1, 50, TRUE, FALSE)}

S(class, onFailure) == [class |-> class, on_failure |-> onFailure]
MCStepLists == {<<S("unknown", "continue"), S("write", "stop")>>,
                <<S("read", "stop")>>}
=============================================================================
