----------------------------- MODULE PageResource -----------------------------
(***************************************************************************)
(* What a console page holds of one useResource (lib/useResource.ts): the  *)
(* data it shows, how far it may be believed, and the one request whose    *)
(* answer it will still take.  Cancelled requests are gone: their answers  *)
(* find `cancelled` set and change nothing.                                *)
(***************************************************************************)
CONSTANTS NoData, NoKey

(* A page has just been mounted: its effect has not run.                   *)
Mounted == [data |-> NoData, mode |-> "loading", failure |-> "none", due |-> TRUE,
            asking |-> FALSE, key |-> NoKey, token |-> NoKey, of |-> NoKey]

(* The effect's dependencies, [key, nonce], differ from those it ran for.  *)
EffectDue(r, key) == r.due \/ r.key # key

(* The effect: the earlier request is cancelled, the data stays on screen, *)
(* and the newest fetcher, with today's token, is called.                  *)
RunEffect(r, key, token) ==
    [r EXCEPT !.mode = "loading", !.due = FALSE, !.asking = TRUE,
              !.key = key, !.token = token]

Succeeds(r, data) ==
    [r EXCEPT !.data = data, !.mode = "live", !.failure = "none",
              !.asking = FALSE, !.of = r.token]

Fails(r, kind) ==
    [r EXCEPT !.data = NoData, !.mode = "example", !.failure = kind,
              !.asking = FALSE, !.of = r.token]

Reload(r) == [r EXCEPT !.due = TRUE]
=============================================================================
