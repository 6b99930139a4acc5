----------------------------- MODULE SettingsPage -----------------------------
(***************************************************************************)
(* The curator card of the settings page in one browser                    *)
(* (src/app/src/routes/settings.tsx), and the query and mutations it goes  *)
(* by (src/app/src/lib/queries.ts): a form of limits that starts from the  *)
(* settings on screen and is made anew, by its key, when they change; and  *)
(* buttons for the token, which send the limits on screen along.           *)
(* DiscoveryForm is such a form too, of one switch.                        *)
(*                                                                         *)
(* A save is answered with the settings, which are put in the cache without*)
(* ending a fetch under way. The server's update is one step here; module  *)
(* ServerSettings takes it apart.                                          *)
(***************************************************************************)
EXTENDS Naturals

CONSTANTS
  PageLimits,     \* the limits one can type
  Nothing,        \* no data, no form, no save; a field that is left out
  Sent,           \* a request the server has not served yet
  MaxChanges,     \* bound: changes made by others
  MaxSaves        \* bound: saves under way at once

Components == {"CuratorToken", "CuratorLimits"}
Settings == [token : {"set", "not set"}, limits : PageLimits, lastRun : 0..MaxChanges]
Slots == 1..MaxSaves
Bodies == [token : {"set", "not set", Nothing}, limits : PageLimits \cup {Nothing}]

ASSUME SettingsPageAssumption ==
  /\ MaxChanges \in Nat /\ MaxSaves \in Nat /\ Nothing # Sent
  /\ {Nothing, Sent} \cap (PageLimits \cup {"set", "not set"} \cup Settings) = {}

VARIABLES
  settings,       \* the server's: [token, limits, lastRun]
  shown,          \* the query's data
  fetched,        \* what its fetch brings, or Sent; Nothing: none under way
  form,           \* CuratorLimits: [from, value]; Nothing: the page is not on screen
  saves,          \* those under way: [by, body, answer] in a slot, or Nothing
  changes         \* made by others

pageVars == <<settings, shown, fetched, form, saves, changes>>

PageInit ==
  /\ settings \in [token : {"set", "not set"}, limits : PageLimits, lastRun : {0}]
  /\ shown = Nothing /\ fetched = Nothing
  /\ form = Nothing
  /\ saves = [s \in Slots |-> Nothing]
  /\ changes = 0

--------------------------------------------------------------------------------
(* The form on screen.                                                      *)

(* Bug: everything on screen is in the key. *)
KeyOfAll(seen) == seen

(* Bug: nothing is. *)
KeyOfNone(seen) == "limits"

(* CuratorLimits' key. *)
Key(seen) == seen.limits

(* No form is drawn before there are settings: "no settings" is the form of *)
(* a page that waits for them.                                              *)
Untouched(seen) ==
  IF seen = Nothing THEN [from |-> Nothing, value |-> Nothing]
                    ELSE [from |-> seen.limits, value |-> seen.limits]

OnScreen == form # Nothing
Drawn == OnScreen /\ form.from # Nothing

(* The saves of components that are gone: they go on, and nothing waits for *)
(* them.                                                                    *)
LeftBy(gone, pending) ==
  [s \in Slots |->
    IF pending[s] # Nothing /\ pending[s].by \in gone
    THEN [pending[s] EXCEPT !.by = "gone"] ELSE pending[s]]

(* `seen` has another key than what is shown, or is the first to be drawn.  *)
Remakes(seen) == OnScreen /\ ~(Drawn /\ Key(seen) = Key(shown))

(* The cache now holds `seen`, and the page is drawn again; `pending` are   *)
(* the saves that are still under way.                                      *)
Shows(seen, pending) ==
  /\ shown' = seen
  /\ form' = IF Remakes(seen) THEN Untouched(seen) ELSE form
  /\ saves' = IF Remakes(seen) THEN LeftBy({"CuratorLimits"}, pending) ELSE pending

OpenSettings ==
  /\ ~OnScreen
  /\ form' = Untouched(shown)
  /\ fetched' = IF fetched = Nothing THEN Sent ELSE fetched     \* stale at once
  /\ UNCHANGED <<settings, shown, saves, changes>>

LeavePage ==
  /\ OnScreen
  /\ form' = Nothing
  /\ saves' = LeftBy(Components, saves)
  /\ UNCHANGED <<settings, shown, fetched, changes>>

Edit(value) ==
  /\ Drawn
  /\ form' = [form EXCEPT !.value = value]
  /\ UNCHANGED <<settings, shown, fetched, saves, changes>>

--------------------------------------------------------------------------------
(* Fetches. *)

(* Undo on the curation page invalidates the query; Retry after an error.   *)
RefetchSettings ==
  /\ OnScreen /\ fetched = Nothing
  /\ fetched' = Sent
  /\ UNCHANGED <<settings, shown, form, saves, changes>>

ServeFetch ==
  /\ fetched = Sent
  /\ fetched' = settings
  /\ UNCHANGED <<settings, shown, form, saves, changes>>

SettingsArrive ==
  /\ fetched \notin {Nothing, Sent}
  /\ Shows(fetched, saves)
  /\ fetched' = Nothing
  /\ UNCHANGED <<settings, changes>>

NoSettingsCome ==
  /\ fetched # Nothing
  /\ fetched' = Nothing
  /\ UNCHANGED <<settings, shown, form, saves, changes>>

--------------------------------------------------------------------------------
(* Saves.                                                                   *)

(* `busy`: the component on screen has no save under way. One it was made   *)
(* anew of, or of the page before it was left, may be.                      *)
Send(c, body) ==
  /\ Drawn
  /\ \A s \in Slots : saves[s] # Nothing => saves[s].by # c
  /\ \E s \in Slots :
       /\ saves[s] = Nothing
       /\ saves' = [saves EXCEPT ![s] = [by |-> c, body |-> body, answer |-> Sent]]
  /\ UNCHANGED <<settings, shown, fetched, form, changes>>

(* A token typed, or none, goes with the limits on screen; one generated    *)
(* goes alone.                                                              *)
SaveToken == Send("CuratorToken", [token |-> "set", limits |-> shown.limits])
ClearToken == shown.token = "set" /\ Send("CuratorToken", [token |-> "not set", limits |-> shown.limits])
GenerateToken == Send("CuratorToken", [token |-> "set", limits |-> Nothing])

SubmitLimits ==
  /\ form.value # form.from
  /\ Send("CuratorLimits", [token |-> Nothing, limits |-> form.value])

ServeSave(s) ==
  /\ saves[s] # Nothing /\ saves[s].answer = Sent
  /\ LET body == saves[s].body
     IN settings' = [settings EXCEPT !.token = IF body.token = Nothing THEN @ ELSE body.token,
                                     !.limits = IF body.limits = Nothing THEN @ ELSE body.limits]
  /\ saves' = [saves EXCEPT ![s].answer = settings']
  /\ UNCHANGED <<shown, fetched, form, changes>>

(* setQueryData, though the page may have been left. *)
SaveAnswered(s) ==
  /\ saves[s] # Nothing /\ saves[s].answer # Sent
  /\ Shows(saves[s].answer, [saves EXCEPT ![s] = Nothing])
  /\ UNCHANGED <<settings, fetched, changes>>

SaveFails(s) ==
  /\ saves[s] # Nothing
  /\ saves' = [saves EXCEPT ![s] = Nothing]
  /\ UNCHANGED <<settings, shown, fetched, form, changes>>

(* A curation run ends; or another browser saves limits. *)
SettingsChange(now) ==
  /\ changes < MaxChanges
  /\ changes' = changes + 1
  /\ settings' = now
  /\ UNCHANGED <<shown, fetched, form, saves>>

RunEnds == SettingsChange([settings EXCEPT !.lastRun = @ + 1])
OthersSave == \E limits \in PageLimits : SettingsChange([settings EXCEPT !.limits = limits])

PageNext ==
  \/ OpenSettings \/ LeavePage
  \/ \E value \in PageLimits : Edit(value)
  \/ RefetchSettings \/ ServeFetch \/ SettingsArrive \/ NoSettingsCome
  \/ Drawn /\ (SaveToken \/ ClearToken \/ GenerateToken \/ SubmitLimits)
  \/ \E s \in Slots : ServeSave(s) \/ SaveAnswered(s) \/ SaveFails(s)
  \/ RunEnds \/ OthersSave

PageSpec == PageInit /\ [][PageNext]_pageVars

--------------------------------------------------------------------------------

PageTypeOK ==
  /\ settings \in Settings
  /\ shown \in Settings \cup {Nothing} /\ fetched \in Settings \cup {Nothing, Sent}
  /\ form \in [from : PageLimits \cup {Nothing}, value : PageLimits \cup {Nothing}] \cup {Nothing}
  /\ saves \in [Slots -> [by : Components \cup {"gone"}, body : Bodies,
                           answer : Settings \cup {Sent}] \cup {Nothing}]
  /\ changes \in 0..MaxChanges

(* The form is of the settings on screen, in whatever order fetches and the *)
(* answers to saves land: what the user does not touch is not written back  *)
(* over a change the page already shows (settings.tsx:660-664).             *)
FormIsOfTheSettings == Drawn => form.from = shown.limits

(* What is being typed is lost only to other limits: not to the answer of a *)
(* token that was saved beside it, nor to a run that ended (settings.tsx:661). *)
EditsOutliveRefetches ==
  [][Drawn /\ form' # Nothing
       => \/ form'.value = form.value
          \/ shown'.limits # shown.limits
          \/ \E value \in PageLimits : Edit(value)]_pageVars

================================================================================
