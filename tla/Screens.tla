-------------------------------- MODULE Screens --------------------------------
(* A screen of the web panel or of the player's app at work: one query in the  *)
(* cache of react-query, and one dialog, confirmation or button with its       *)
(* mutation.  PanelData and MobileData say which ones there are; the initial   *)
(* state picks a mutation of a component of a screen and a query of a family   *)
(* that mutation changes, shown in that screen, in the dialog itself or in     *)
(* another screen.  JavaScript runs without interruption; requests are         *)
(* answered in any order, or not at all.                                       *)
EXTENDS Naturals, Sequences

Panel  == INSTANCE PanelData
Mobile == INSTANCE MobileData

CONSTANTS
    Items,         \* rows a dialog can be opened for
    MaxVersion,    \* bound: changes of the family in the backend
    MaxMutations,  \* bound: mutations sent
    None

ASSUME ScreensAssumption ==
    MaxVersion \in Nat /\ MaxMutations \in Nat /\ None \notin Items \cup (0..MaxVersion)

VARIABLES
    ui,       \* the app, the component and the query picked
    version,  \* changes of the family in the backend
    cache,    \* the query: data (the version it shows), invalid, error, empty (nothing to do)
    fetch,    \* its request in flight
    at,       \* the screen is on view (here) or another one is (away)
    dlg,      \* the row the dialog is open for
    muts,     \* mutations sent, in order
    cur,      \* the mutation the component observes, 0 if none
    owed,     \* history: the version the cache must have got to
    late      \* history: an answer older than the change came after it

vars == <<ui, version, cache, fetch, at, dlg, muts, cur, owed, late>>

Versions == 0..MaxVersion
NoFetch  == [phase |-> "idle", val |-> 0, old |-> FALSE]
Starting == [phase |-> "sent", val |-> 0, old |-> FALSE]

Mutations == [item : Items, made : Versions, reading : BOOLEAN,
              phase : {"sent", "served", "refused", "kept", "lost", "done", "failed"},
              opening : {"open", "replaced", "turned", "closed", "gone"}]

Caches == [data : Versions \cup {None}, invalid : BOOLEAN, error : BOOLEAN, empty : BOOLEAN]

ScreensTypeOK ==
    /\ ui.app \in {"panel", "mobile"} /\ ui.observer \in {"reset", "unmount", "keep", "page"}
    /\ ui.place \in {"screen", "dialog", "elsewhere"}
    /\ version \in Versions /\ owed \in Versions /\ late \in BOOLEAN
    /\ cache \in Caches
    /\ fetch \in [phase : {"idle", "sent", "read"}, val : Versions, old : BOOLEAN]
    /\ at \in {"here", "away"} /\ dlg \in Items \cup {None}
    /\ muts \in Seq(Mutations) /\ Len(muts) <= MaxMutations
    /\ cur \in 0..Len(muts)
    /\ ui.observer \in {"reset", "unmount"} /\ dlg = None => cur = 0

(* What is told apart of the component d, its hook h and the query q.          *)
Watch(app, s, d, h, q) ==
    [app |-> app, tab |-> s.tab, stays |-> app = "mobile" /\ q \in Mobile!Tabbed,
     aborts |-> app = "mobile" /\ q \in Mobile!Aborting,
     observer |-> d.observer, closes |-> d.closes, errors |-> d.errors, locks |-> d.locks,
     tabs |-> d.tabs, inside |-> q \in d.inside, drawn |-> q \in d.drawn, loses |-> d.loses,
     needs |-> q \in d.needs, left |-> q.family \in h.leaves, silent |-> h.silent, always |-> h.always, awaits |-> h.awaits,
     invalidates |-> q.family \in h.invalidates, sets |-> q \in h.sets,
     place |-> IF q \in d.shows THEN "dialog" ELSE IF q \in s.queries THEN "screen" ELSE "elsewhere"]

Watched(app, screens, queries) ==
    UNION {UNION {UNION {{Watch(app, s, d, h, q) : q \in {p \in queries : p.family \in h.changes}}
                         : h \in d.hooks} : d \in s.writers} : s \in screens}

Init ==
    /\ ui \in Watched("panel", Panel!Screens, Panel!Queries)
             \cup Watched("mobile", Mobile!Screens, Mobile!Queries)
    /\ version = 0 /\ owed = 0 /\ late = FALSE
    /\ cache = [data |-> None, invalid |-> FALSE, error |-> FALSE, empty |-> FALSE]
    /\ fetch = IF ui.place = "screen" THEN Starting ELSE NoFetch
    /\ at = "here" /\ dlg = None /\ muts = << >> /\ cur = 0

(* -------------------------------- queries ---------------------------------- *)

(* The query has been mounted: in a tab, it stays so.                          *)
Visited == ui.stays /\ (cache.data # None \/ cache.error \/ fetch.phase # "idle")

OnView(a, d) == CASE ui.place = "screen" -> a = "here" \/ Visited
                  [] ui.place = "elsewhere" -> a = "away" \/ Visited
                  [] ui.place = "dialog" -> a = "here" /\ d # None

(* isPending: also while the hook waits for what it invalidated.               *)
InFlight(m) == muts[m].phase \in {"sent", "served", "refused", "kept", "lost"}

(* The query gets on view: it is fetched if it has no data, if it was          *)
(* invalidated, or if its data is older than staleTime, which time decides.    *)
Mount == \/ /\ fetch.phase = "idle"
            /\ fetch' = Starting
         \/ /\ fetch.phase # "idle" \/ (cache.data # None /\ ~cache.invalid /\ ~cache.error)
            /\ UNCHANGED fetch

(* Nobody looks at the query any more: its request goes on, or is aborted and  *)
(* leaves no trace.                                                            *)
Unmount == fetch' = IF ui.aborts THEN NoFetch ELSE fetch

(* The user goes somewhere: to screen a, with the dialog open for d.           *)
Go(a, d) ==
    /\ at' = a /\ dlg' = d
    /\ CASE OnView(a, d) /\ ~OnView(at, dlg) -> Mount
         [] ~OnView(a, d) /\ OnView(at, dlg) -> Unmount
         [] OTHER -> UNCHANGED fetch

(* Focus of the window, a retry, the interval of the expenses; in the app,     *)
(* focus of the tab or a pull, which start again what is in flight.            *)
Refetch ==
    /\ OnView(at, dlg)
    /\ fetch.phase = "idle" \/ (ui.app = "mobile" /\ cache.data # None)
    /\ fetch' = Starting
    /\ UNCHANGED <<ui, version, cache, at, dlg, muts, cur, owed, late>>

ReadServer ==
    /\ fetch.phase = "sent"
    /\ fetch' = [fetch EXCEPT !.phase = "read", !.val = version]
    /\ UNCHANGED <<ui, version, cache, at, dlg, muts, cur, owed, late>>

(* The opening the mutations in flight were sent from is over: closed by the   *)
(* user, or gone with the data of the component.  Or the component no longer   *)
(* looks at the one it was observing: another one took its place (replaced),   *)
(* or the user turned to another part of the dialog (turned).                  *)
Parted(how) ==
    [m \in DOMAIN muts |-> IF InFlight(m) /\ muts[m].opening = "open"
                           THEN [muts[m] EXCEPT !.opening = how] ELSE muts[m]]
Dropped(how) == IF cur # 0 /\ InFlight(cur) THEN [muts EXCEPT ![cur].opening = how] ELSE muts

(* The request of the query ended: no hook waits for it any more.              *)
Read(mutations) == [m \in DOMAIN mutations |-> [mutations[m] EXCEPT !.reading = FALSE]]

(* The component is off the screen for want of data, for an error or because   *)
(* the data leaves nothing to do.  The row its dialog is open for stays in the *)
(* component above, and the dialog comes back with the data by itself.         *)
OffWith(c) == \/ ui.inside /\ (c.data = None \/ c.error)
              \/ ui.drawn /\ (c.data = None \/ c.empty)
Off == OffWith(cache)

(* What it was observing is unmounted with it, unless the hook is above.       *)
Goes == ~Off /\ OffWith(cache') /\ ui.observer # "keep"

(* The data of the query changed, and the component stays or goes with it.     *)
Vanish == /\ cur' = 0 /\ muts' = Read(Parted("gone"))
          /\ dlg' = IF ui.loses THEN None ELSE dlg
Remain == muts' = Read(muts) /\ UNCHANGED <<dlg, cur>>

Arrive ==
    /\ fetch.phase = "read"
    /\ \E empty \in IF ui.drawn THEN BOOLEAN ELSE {FALSE} :
          cache' = [data |-> fetch.val, invalid |-> FALSE, error |-> FALSE, empty |-> empty]
    /\ fetch' = NoFetch
    /\ late' = fetch.old
    /\ IF Goes THEN Vanish ELSE Remain
    /\ UNCHANGED <<ui, version, at, owed>>

(* The retries ran out.                                                        *)
FailFetch ==
    /\ fetch.phase \in {"sent", "read"}
    /\ cache' = [cache EXCEPT !.invalid = TRUE, !.error = TRUE]
    /\ fetch' = NoFetch
    /\ IF Goes THEN Vanish ELSE Remain
    /\ UNCHANGED <<ui, version, at, owed, late>>

(* -------------------------------- dialogs ---------------------------------- *)

Open(i) ==
    /\ at = "here" /\ dlg = None /\ ui.observer # "page"
    /\ ui.place # "dialog" => ~Off /\ (ui.needs => cache.data # None /\ ~cache.error)
    /\ Go("here", i)
    /\ UNCHANGED <<ui, version, cache, muts, cur, owed, late>>

(* Mutant of Forget: the dialog closes and its observer stays.                 *)
Remember == cur

Forget == IF ui.observer \in {"reset", "unmount"} THEN 0 ELSE cur

(* Escape, the cross or Cancel: also while the mutation is in flight.  A       *)
(* dialog that reads its own query is there also without it.                   *)
Close ==
    /\ dlg # None /\ (Off => ui.place = "dialog")
    /\ Go("here", None)
    /\ cur' = Forget /\ muts' = Parted("closed")
    /\ UNCHANGED <<ui, version, cache, owed, late>>

(* Another tab of the movement, or Reprogramar and Volver.                     *)
ChangeTab ==
    /\ ui.tabs /\ dlg # None
    /\ cur' = 0 /\ muts' = Dropped("turned")
    /\ UNCHANGED <<ui, version, cache, fetch, at, dlg, owed, late>>

(* The user goes to another screen, and comes back.  A tab stays behind; the   *)
(* rest is unmounted.                                                          *)
Leave ==
    /\ at = "here"
    /\ Go("away", None)
    /\ IF ui.tab THEN UNCHANGED <<cur, muts>>
       ELSE cur' = 0 /\ muts' = IF fetch' = fetch THEN Parted("closed") ELSE Read(Parted("closed"))
    /\ UNCHANGED <<ui, version, cache, owed, late>>

Return ==
    /\ at = "away"
    /\ Go("here", None)
    /\ UNCHANGED <<ui, version, cache, muts, cur, owed, late>>

(* ------------------------------- mutations --------------------------------- *)

(* Mutant of Disabled: the button does not look at the mutation.               *)
NeverDisabled(i) == FALSE

(* The button that sends, while the mutation observed is in flight.            *)
Disabled(i) == /\ cur # 0
               /\ \/ InFlight(cur) /\ (ui.locks = "all" \/ muts[cur].item = i)
                  \/ ui.closes = "result" /\ muts[cur].phase = "done"

Mutation(i) == [item |-> i, phase |-> "sent", made |-> 0, opening |-> "open", reading |-> FALSE]

(* A new mutation takes the place of the one observed.                         *)
Submit(i) ==
    /\ at = "here" /\ Len(muts) < MaxMutations
    /\ ~Off
    /\ IF ui.observer = "page" THEN ui.needs => cache.data # None /\ ~cache.error ELSE dlg = i
    /\ ~Disabled(i)
    /\ muts' = Append(Dropped("replaced"), Mutation(i))
    /\ cur' = Len(muts) + 1
    /\ UNCHANGED <<ui, version, cache, fetch, at, dlg, owed, late>>

(* The backend does it or refuses; made is what its answer speaks of to the    *)
(* hook, and a refusal only to one that acts on failures too.                  *)
Serve(m) ==
    /\ muts[m].phase = "sent"
    /\ \/ /\ version < MaxVersion
          /\ version' = version + 1
          /\ muts' = [muts EXCEPT ![m].phase = "served", ![m].made = version + 1]
       \/ /\ muts' = [muts EXCEPT ![m].phase = "refused", ![m].made = IF ui.always THEN version ELSE @]
          /\ UNCHANGED version
    /\ UNCHANGED <<ui, cache, fetch, at, dlg, cur, owed, late>>

(* What the hook does to the cache: the answer goes in as data, and what is    *)
(* invalid is fetched again if it is on view.  A request of a query that has   *)
(* no data yet, or is not on view, is left to arrive.  The button that cancels *)
(* a reservation is the one drawn by what its hook fills: a cancelled one has  *)
(* none.                                                                       *)
Filled(m, well) ==
    IF well /\ ui.sets
    THEN [data |-> muts[m].made, invalid |-> FALSE, error |-> FALSE, empty |-> ui.drawn]
    ELSE cache

Refresh(m, well) ==
    LET filled == Filled(m, well)
        again  == /\ ui.invalidates /\ OnView(at, dlg)
                  /\ fetch.phase = "idle" \/ filled.data # None IN
    /\ cache' = [filled EXCEPT !.invalid = @ \/ ui.invalidates]
    /\ fetch' = IF again THEN Starting ELSE [fetch EXCEPT !.old = @ \/ fetch.phase = "read"]
    /\ late'  = (late \/ filled.data \in 0..(owed - 1))
    /\ owed'  = IF muts[m].made > owed THEN muts[m].made ELSE owed

(* Who hears of a failure: the toast of the panel, or the component that still *)
(* observes the mutation.                                                      *)
Told(m) == \/ ~ui.silent
           \/ cur = m /\ ui.errors = "form" /\ (ui.observer = "page" \/ dlg # None)
           \/ cur = m /\ ui.errors = "call"

(* The callbacks of the call, for the mutation observed, and its error drawn.  *)
(* How it ended is all that is kept of it.                                     *)
Finish(m, well) ==
    /\ muts' = [muts EXCEPT ![m] = [Mutation(@.item) EXCEPT !.phase = IF well THEN "done" ELSE "failed"]]
    /\ dlg' = IF cur = m /\ (ui.closes = "settled" \/ (ui.closes = "success" /\ well))
              THEN None ELSE dlg
    /\ cur' = IF cur = m /\ dlg' = None THEN Forget ELSE cur

(* The mutation ends well or badly (refused, timeout, no network).  The hook   *)
(* goes first; one that waits holds the callbacks back.                        *)
Settle(m, well) ==
    /\ muts[m].phase \in IF well THEN {"served"} ELSE {"sent", "served", "refused"}
    /\ IF well \/ ui.always THEN Refresh(m, well) ELSE UNCHANGED <<cache, fetch, late, owed>>
    /\ IF ui.awaits /\ (well \/ ui.always)
       THEN /\ muts' = [IF Goes THEN Parted("gone") ELSE muts
                        EXCEPT ![m].phase = IF well THEN "kept" ELSE "lost",
                               ![m].reading = ui.invalidates /\ OnView(at, dlg)]
            /\ cur' = IF Goes THEN 0 ELSE cur
            /\ UNCHANGED dlg
       ELSE Finish(m, well)
    /\ UNCHANGED <<ui, version, at>>

(* What the hook waited for has been read, this query and the others.          *)
Resume(m) ==
    /\ muts[m].phase \in {"kept", "lost"} /\ ~muts[m].reading
    /\ Finish(m, muts[m].phase = "kept")
    /\ UNCHANGED <<ui, version, cache, fetch, at, owed, late>>

(* Somebody else changes the family.                                           *)
ChangeElsewhere ==
    /\ version < MaxVersion
    /\ version' = version + 1
    /\ UNCHANGED <<ui, cache, fetch, at, dlg, muts, cur, owed, late>>

Next ==
    \/ Refetch \/ ReadServer \/ Arrive \/ FailFetch \/ Close \/ ChangeTab \/ Leave \/ Return
    \/ ChangeElsewhere
    \/ \E i \in Items : Open(i) \/ Submit(i)
    \/ \E m \in DOMAIN muts : Serve(m) \/ Resume(m) \/ \E well \in BOOLEAN : Settle(m, well)

Spec == Init /\ [][Next]_vars

(* ------------------------------ properties --------------------------------- *)

Fails(m) == InFlight(m) /\ muts'[m].phase = "failed"
Ends(m)  == InFlight(m) /\ muts'[m].phase \in {"done", "failed"}

(* What is on view and at rest is not older than the changes the user made     *)
(* here, wherever it is shown and whatever was in flight when they settled.    *)
(* Left out: what the hook leaves alone (PanelData and MobileData name it: the *)
(* dashboard after most of them), which only gets read again in time; a screen *)
(* that shows its error; and an answer older than the change that came after   *)
(* it, which late says (the first load of the query, a query that is not on    *)
(* view, two answers that the hook writes in the opposite order).              *)
FreshAtRest ==
    OnView(at, dlg) /\ fetch.phase = "idle" /\ ~cache.error /\ ~late /\ ~ui.left => cache.data >= owed

(* A dialog is closed by the mutation that was sent from that opening, never   *)
(* by one of a dialog closed before.  The confirmations outlive their dialog   *)
(* and are left out: theirs can close the dialog opened next.                  *)
ClosesItsOwn ==
    [][\A m \in DOMAIN muts :
          Ends(m) /\ dlg # None /\ dlg' = None
          /\ ui.observer # "keep" => muts[m].opening = "open"]_vars

(* A component that stays in front of the user does not send a mutation while  *)
(* the one it sent before is in flight, so that a double click does not charge *)
(* a fee twice.  The button is given back, and can send again, when the user   *)
(* closed the dialog or left and came back, when the data took the component   *)
(* off the screen and brought it back, and when the user turned to another     *)
(* part of the dialog: a tab of the movements of stock, Reprogramar and Volver *)
(* in a reservation.  The table of courts, where each row sends its own, is    *)
(* left out.                                                                   *)
OneInFlight ==
    ui.locks = "all" =>
        \A m, n \in DOMAIN muts :
            m < n /\ InFlight(m) /\ InFlight(n) => muts[m].opening \in {"closed", "gone", "turned"}

(* A failure nobody tells of is one of a mutation that left its error to the   *)
(* component, and the user had closed or left it, its data had taken it off    *)
(* the screen, the dialog is in another of its tabs or of its parts, or, in    *)
(* the table of courts, another mutation had taken its place.                  *)
FailureIsTold ==
    [][\A m \in DOMAIN muts :
          Fails(m) /\ ~Told(m) =>
              /\ ui.silent
              /\ \/ muts[m].opening \in {"closed", "gone"}
                 \/ muts[m].opening = "turned" /\ ui.tabs
                 \/ muts[m].opening = "replaced" /\ ui.locks = "row"]_vars

(* When the app goes on after a mutation (an alert, the next screen), the      *)
(* screen it was sent from shows nothing older than the answer: the alert that *)
(* says somebody took the slot comes when the slot is no longer offered.       *)
GoesOnUpToDate ==
    [][\A m \in DOMAIN muts :
          /\ ui.app = "mobile" /\ ui.invalidates /\ (ui.always \/ muts'[m].phase = "done")
          /\ Ends(m)
          /\ cur = m /\ ui.place = "screen" /\ cache.data # None /\ ~cache.error /\ ~late
          => cache.data >= muts[m].made]_vars

=============================================================================
