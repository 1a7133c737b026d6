-------------------------------- MODULE Website --------------------------------
(***************************************************************************)
(* What a student's browser meets: the session check in front of the pages  *)
(* (validateSession of internal/web/login.go), the redirects between /home, *)
(* /telegram, /login and GitLab, the Telegram login, and the home page, for *)
(* several tabs that share one cookie, while the staff move students        *)
(* between groups and the deadlines are reloaded.                           *)
(*                                                                          *)
(* Linking a GitLab account is LoginService's; here it is one step that     *)
(* succeeds or not.  Telegram is configured: without it no check is made.   *)
(***************************************************************************)
EXTENDS DeadlinesFetcher

CONSTANTS
    Users,
    Tabs,             \* of one browser
    RequestedGroups,  \* what is asked for at the changeGroup endpoint
    NoUser, NoGroup, NoTab

ASSUME WebsiteAssumption ==
    /\ Groups \subseteq RequestedGroups
    /\ NoUser \notin Users /\ NoTab \notin Tabs /\ NoGroup \notin RequestedGroups

VARIABLES
    row,      \* the users table
    token,    \* the cookie: whose session it is
    oauth,    \* the cookie: the tab whose OAuth state it holds
    tab       \* the request a tab is making, or the page it shows

siteVars == <<row, token, oauth, tab>>
webVars == <<siteVars, fetcherVars>>

(* A request is handled by the route it is named after; "render" is the     *)
(* home page past its session check, and needs the group it was made for.   *)
Routes == {"home", "render", "telegramLogin", "telegramCallback", "login", "oauth"}
Shown == {"page", "telegramPage", "failed"}
Row == [linked: BOOLEAN, telegram: BOOLEAN, group: RequestedGroups \cup {NoGroup}]

SiteTypeOK ==
    /\ row \in [Users -> Row]
    /\ \A u \in Users : /\ row[u].telegram => row[u].linked
                       /\ row[u].linked => row[u].group \in Groups
    /\ token \in Users \cup {NoUser}
    /\ oauth \in Tabs \cup {NoTab}
    /\ tab \in [Tabs -> [at: Routes \cup Shown, group: RequestedGroups \cup {NoGroup}]]

WebInit ==
    /\ FetcherInit
    /\ row = [u \in Users |-> [linked |-> FALSE, telegram |-> FALSE, group |-> NoGroup]]
    /\ token = NoUser
    /\ oauth = NoTab
    /\ tab = [t \in Tabs |-> [at |-> "page", group |-> NoGroup]]

At(t, place) == tab[t].at = place
Goes(t, place) == tab' = [tab EXCEPT ![t] = [at |-> place, group |-> NoGroup]]

(* RedirectToSignup: the session is cleared and the signup page rendered. *)
RedirectToSignup(t) ==
    /\ token' = NoUser
    /\ Goes(t, "page")
    /\ UNCHANGED oauth
-----------------------------------------------------------------------------
(* The student *)

(* A link to a page behind the session check, or "Log in". *)
Visit(t) ==
    /\ tab[t].at \in Shown
    /\ Goes(t, "home") \/ Goes(t, "login")
    /\ UNCHANGED <<row, token, oauth>>

Logout(t) ==
    /\ tab[t].at \in Shown
    /\ RedirectToSignup(t)
    /\ UNCHANGED row

(* The signup form.  A user who is there and has an account is refused, as  *)
(* is a wrong name or secret; the session may fail after the user is there. *)
SignupForm(t, u, g) ==
    /\ At(t, "page")
    /\ row[u].group \in {NoGroup, g}
    /\ \/ /\ ~row[u].linked
          /\ row' = [row EXCEPT ![u].group = g]
          /\ \/ token' = u /\ Goes(t, "login") /\ UNCHANGED oauth
             \/ RedirectToSignup(t)
       \/ RedirectToSignup(t) /\ UNCHANGED row

(* The widget of the Telegram page sends the browser to the callback. *)
Confirm(t) ==
    /\ At(t, "telegramPage")
    /\ Goes(t, "telegramCallback")
    /\ UNCHANGED <<row, token, oauth>>
-----------------------------------------------------------------------------
(* The handlers *)

(* validateSession(verifyTelegram): where a request is sent instead. *)
ValidateSession(verifyTelegram) ==
    IF token = NoUser THEN "page"
    ELSE IF verifyTelegram /\ ~row[token].telegram THEN "telegramLogin"
    ELSE IF ~row[token].linked THEN "login"
    ELSE "handler"

Redirected(t, verifyTelegram) ==
    /\ ValidateSession(verifyTelegram) # "handler"
    /\ Goes(t, ValidateSession(verifyTelegram))
    /\ UNCHANGED <<row, token, oauth>>

(* The session cannot be looked up: the request is sent to the signup page. *)
SessionFails(t) ==
    /\ tab[t].at \in {"home", "telegramLogin", "telegramCallback"}
    /\ Goes(t, "page")
    /\ UNCHANGED <<row, token, oauth>>

(* The home page; the pages for flags and retakes have the same check. *)
Home(t) ==
    /\ At(t, "home")
    /\ \/ Redirected(t, TRUE)
       \/ /\ ValidateSession(TRUE) = "handler"
          /\ tab' = [tab EXCEPT ![t] = [at |-> "render", group |-> row[token].group]]
          /\ UNCHANGED <<row, token, oauth>>

(* RenderHomePage: without a sheet, or when one of its queries fails,       *)
(* CalcUserScores returns nil, which reverseScores does not survive.        *)
RenderHomePage(t) ==
    /\ At(t, "render")
    /\ \/ HasSheet(tab[t].group) /\ Goes(t, "page")
       \/ Goes(t, "failed")
    /\ UNCHANGED <<row, token, oauth>>

(* Mutant: the page that asks for Telegram checks for it. *)
TelegramLoginVerifies(t) ==
    /\ At(t, "telegramLogin")
    /\ \/ Redirected(t, TRUE)
       \/ /\ ValidateSession(TRUE) = "handler"
          /\ Goes(t, "telegramPage")
          /\ UNCHANGED <<row, token, oauth>>

TelegramLogin(t) ==
    /\ At(t, "telegramLogin")
    /\ \/ Redirected(t, FALSE)
       \/ /\ ValidateSession(FALSE) = "handler"
          /\ Goes(t, "telegramPage")
          /\ UNCHANGED <<row, token, oauth>>

(* telegramCallback: the id is stored; or the data does not carry           *)
(* Telegram's signature, is malformed or cannot be stored, or the answer of *)
(* the database is lost.                                                    *)
TelegramCallback(t) ==
    /\ At(t, "telegramCallback")
    /\ \/ Redirected(t, FALSE)
       \/ /\ ValidateSession(FALSE) = "handler"
          /\ \/ /\ row' = [row EXCEPT ![token].telegram = TRUE]
                /\ Goes(t, "home") \/ Goes(t, "telegramLogin")
             \/ UNCHANGED row /\ Goes(t, "telegramLogin")
          /\ UNCHANGED <<token, oauth>>

(* /login: a new OAuth state, over one another tab may be waiting with. *)
Login(t) ==
    /\ At(t, "login")
    /\ oauth' = t
    /\ Goes(t, "oauth")
    /\ UNCHANGED <<row, token>>

(* GitLab has sent the browser back: the state is another tab's, or the     *)
(* account is unknown, taken or not to be had; or the session's user, or    *)
(* the one the account belongs to, is linked by now, unless the database's  *)
(* answer or the new session fails.                                         *)
Oauth(t) ==
    /\ At(t, "oauth")
    /\ \/ RedirectToSignup(t) /\ UNCHANGED row
       \/ /\ oauth = t
          /\ \E u \in Users :
                /\ u = token \/ (token = NoUser /\ row[u].linked)
                /\ row' = [row EXCEPT ![u].linked = TRUE]
                /\ \/ token' = u /\ Goes(t, "home") /\ UNCHANGED oauth
                   \/ RedirectToSignup(t)

(* Mutant: any group is taken. *)
ChangeGroupUnchecked(u, g) ==
    /\ row[u].linked
    /\ row' = [row EXCEPT ![u].group = g]
    /\ UNCHANGED <<token, oauth, tab>>

(* changeGroup: the group must be one of the configuration. *)
ChangeGroup(u, g) ==
    /\ row[u].linked
    /\ g \in Groups
    /\ row' = [row EXCEPT ![u].group = g]
    /\ UNCHANGED <<token, oauth, tab>>

Serve(t) ==
    \/ Home(t)
    \/ RenderHomePage(t)
    \/ TelegramLogin(t)
    \/ TelegramCallback(t)
    \/ Login(t)
    \/ Oauth(t)

SiteNext ==
    \/ \E t \in Tabs :
         \/ Visit(t)
         \/ Logout(t)
         \/ \E u \in Users, g \in Groups : SignupForm(t, u, g)
         \/ Confirm(t)
         \/ Serve(t)
         \/ SessionFails(t)
    \/ \E u \in Users, g \in RequestedGroups : ChangeGroup(u, g)

WebNext ==
    \/ SiteNext /\ UNCHANGED fetcherVars
    \/ FetcherNext /\ UNCHANGED siteVars

WebSpec == WebInit /\ [][WebNext]_webVars

(* Requests are answered and redirects followed; students owe nothing.  The *)
(* fetcher's ticker goes on, a swap is local, and a fetch that is tried     *)
(* again and again is answered at some time.                                *)
WebFairSpec ==
    /\ WebSpec
    /\ \A t \in Tabs : WF_webVars(Serve(t) /\ UNCHANGED fetcherVars)
    /\ WF_webVars(ReloadTick /\ UNCHANGED siteVars)
    /\ WF_webVars(Swap /\ UNCHANGED siteVars)
    /\ \A i \in DOMAIN ConfigGroups :
         SF_webVars(position = i /\ FetchGroup /\ UNCHANGED siteVars)
-----------------------------------------------------------------------------
(* No request is sent in circles: whatever a student does to the shared     *)
(* cookie in other tabs, and although /home sends one without Telegram to   *)
(* /telegram, that one without GitLab to /login and that back to /home,     *)
(* every navigation ends at a page (login.go:41-47, 356-394).  (Whoever     *)
(* keeps changing between two names in one tab can keep another tab going.) *)
RedirectsEnd == \A t \in Tabs : (tab[t].at \in Routes) ~> (tab[t].at \in Shown)

(* The home page never fails for want of a sheet, although the group is     *)
(* read before and the sheet after others have moved the student or a       *)
(* reload has failed half-way (render.go:105-108, scorer.go:231-234,        *)
(* api.go:226-237, fetcher.go:137-153).  A failing query may still end it.  *)
HomeHasSheet == \A t \in Tabs : At(t, "render") => HasSheet(tab[t].group)
=============================================================================
