--------------------------- MODULE MCBlockGenerator ---------------------------
(* Small instances of BlockGenerator for TLC.                                  *)
EXTENDS BlockGenerator

Source(id, path) == [id |-> id, path |-> path]

\* Two contracts, both called; one called twice; two ids of one source; an id
\* used twice; a call of a contract that is not defined; no transaction.
MCConfigs == {
    [valid |-> TRUE, contracts |-> <<Source(0, 1), Source(1, 2)>>, transactions |-> <<1, 0>>],
    [valid |-> TRUE, contracts |-> <<Source(0, 1)>>, transactions |-> <<0, 0>>],
    [valid |-> TRUE, contracts |-> <<Source(0, 1), Source(1, 1)>>, transactions |-> <<0>>],
    [valid |-> TRUE, contracts |-> <<Source(0, 1), Source(0, 2)>>, transactions |-> <<0>>],
    [valid |-> TRUE, contracts |-> <<Source(0, 1)>>, transactions |-> <<0, 2>>],
    [valid |-> TRUE, contracts |-> <<Source(0, 1)>>, transactions |-> <<>>]}

Generate(c, outputs) ==
    [mode |-> "generate-block", cli |-> FALSE, given |-> TRUE, config |-> c,
     block |-> "block" \in outputs, state |-> "state" \in outputs]

OneConfig == CHOOSE c \in MCConfigs : c.transactions = <<0, 0>>

\* Every config with both outputs; a config without one of them, and a run
\* with the config of the CLI; a config that is no valid JSON, and none.
MCArguments ==
    {Generate(c, {"block", "state"}) : c \in MCConfigs}
    \cup {Generate(OneConfig, {"state"}),
          [Generate(OneConfig, {"block"}) EXCEPT !.cli = TRUE],
          [Generate(OneConfig, {}) EXCEPT !.config.valid = FALSE],
          [Generate(OneConfig, {}) EXCEPT !.given = FALSE],
          [Generate(OneConfig, {}) EXCEPT !.mode = "make-config"],
          [Generate(OneConfig, {}) EXCEPT !.mode = "make-config", !.cli = TRUE]}

===============================================================================
