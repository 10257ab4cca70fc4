------------------------------ MODULE ScreenParts ------------------------------
(* The parts the screens of the panel and of the player's app are made of:     *)
(* queries, mutations, the components that write, and screens.  PanelData and  *)
(* MobileData list the ones of each app; Screens gives them their behaviour.   *)

(* A query: the family (root key) it hangs from, and its hook.                 *)
Query(family, hook) == [family |-> family, hook |-> hook]

(* A mutation: the families whose answers its endpoint changes, the ones the   *)
(* hook invalidates and the queries it fills with the answer, on success or in *)
(* any case.  The hook may wait for what it invalidates to be read again.  A   *)
(* silent mutation leaves its error to the component; the others raise the     *)
(* toast of lib/query-client.ts.  What a hook leaves is a family its endpoint  *)
(* changes too and the hook does not touch: it is read again when staleTime    *)
(* has passed and the screen or the window is looked at again.                 *)
Toasted(changes, invalidates) ==
    [changes |-> changes, leaves |-> {}, invalidates |-> invalidates, sets |-> {},
     always |-> FALSE, awaits |-> FALSE, silent |-> FALSE]
Silent(changes, invalidates) == [Toasted(changes, invalidates) EXCEPT !.silent = TRUE]
Setting(hook, queries) == [hook EXCEPT !.sets = queries]
Awaiting(changes, invalidates) == [Silent(changes, invalidates) EXCEPT !.awaits = TRUE]
Always(hook) == [hook EXCEPT !.always = TRUE]
Leaving(hook, families) == [hook EXCEPT !.changes = @ \cup families, !.leaves = families]

(* What a component does around its mutations.                                 *)
(*   observer  reset: forgets the mutation when the dialog closes; unmount: is *)
(*             unmounted with it; keep: outlives it; page: has no dialog       *)
(*   closes    what closes the dialog: success, settled (also an error) or no; *)
(*             result: the answer takes the place of the form                  *)
(*   errors    who tells of a failure: form (drawn in it), call (onError of    *)
(*             the call) or toast (nobody here)                                *)
(*   locks     what a mutation in flight disables: all, or its own row         *)
(*   tabs      the tabs or the toggle of the dialog forget the mutation too    *)
(*   shows     queries mounted with the dialog                                 *)
(*   inside    the query without which, or with whose error, the component is  *)
(*             off the screen                                                  *)
(*   drawn     the query whose data takes it off, when nothing is left to do   *)
(*   loses     off the screen, it loses the row it was open for                *)
(*   needs     the query with the row it is opened for, or the data it edits   *)
Form(hooks) ==
    [hooks |-> hooks, observer |-> "reset", closes |-> "success", errors |-> "form",
     locks |-> "all", tabs |-> FALSE, shows |-> {}, inside |-> {}, drawn |-> {},
     loses |-> FALSE, needs |-> {}]
Mounted(form)   == [form EXCEPT !.observer = "unmount"]
Inside(form, q) == [form EXCEPT !.inside = {q}]
Drawn(form, q)  == [form EXCEPT !.drawn = {q}]
Losing(form)    == [form EXCEPT !.loses = TRUE]
OfRow(form, q)  == [form EXCEPT !.needs = {q}]
ConfirmDialog(hooks) == [Form(hooks) EXCEPT !.observer = "keep", !.errors = "toast"]
Page(hooks) == [Form(hooks) EXCEPT !.observer = "page", !.closes = "no", !.errors = "toast"]
Calling(form) == [form EXCEPT !.errors = "call"]

(* A screen: the queries mounted with it and the components that write.  A tab *)
(* stays mounted behind the others once it has been seen.                      *)
Screen(queries, writers) == [queries |-> queries, writers |-> writers, tab |-> FALSE]
Tab(queries, writers) == [Screen(queries, writers) EXCEPT !.tab = TRUE]
=============================================================================
