------------------------------- MODULE Pages -------------------------------
(***************************************************************************)
(* The pages of the web application.  One is mounted at a time, in a tab   *)
(* of its own: Start says which pages a behaviour may begin with.  Every   *)
(* page module works on the variables of Page and takes its constants from *)
(* here by name.                                                          *)
(***************************************************************************)
EXTENDS Page, Sequences

CONSTANTS
  Start,  \* the pages that are opened
  People, RoleFilters,                \* UsersPage
  Nodes, MaxRotate,                   \* ServerPage
  Settings,                           \* JobControlPage
  KeyLimit, MaxRotation,              \* ApiKeysPage
  Emails, Retentions,                 \* CachePage, VerifyPage
  MaxLog, PAGE_SIZE, MAX_BUFFER,      \* LogsPage
  Backups,                            \* LicensePage
  Brands, Scripts, MAX_SCRIPTS,       \* BrandPage
  Packages,                           \* PackagesPage
  Templates, Drafts,                  \* SmtpPage
  Names, Urls, MaxSecret,             \* ProfilePage
  Domains,                            \* DomainsPage
  MaxJob, limit,                      \* JobsPage, HistoryPage
  Costs, Credits, MaxSelect, MaxKey,  \* UploadPage, VerifyPage, TransferPage
  MaxFree, MaxToken,                  \* HomePage, ContactPage
  Providers,                          \* PaymentPage
  Offers,                             \* CreditsPage
  MaxRows,                            \* HistoryPage
  MaxCode,                            \* AccountPages
  MaxVisit, MaxBlock, Controls, MAX_SHOWN  \* SecurityPage

ASSUME LogsAssumption == MaxLog \in Nat /\ PAGE_SIZE \in Nat /\ MAX_BUFFER \in Nat
ASSUME SecurityAssumption == MaxVisit \in Nat /\ MAX_SHOWN \in Nat

Users == INSTANCE UsersPage
Server == INSTANCE ServerPage
JobControl == INSTANCE JobControlPage
ApiKeys == INSTANCE ApiKeysPage
Cache == INSTANCE CachePage
Logs == INSTANCE LogsPage
License == INSTANCE LicensePage
Brand == INSTANCE BrandPage
Package == INSTANCE PackagesPage
Smtp == INSTANCE SmtpPage
Profile == INSTANCE ProfilePage
Domain == INSTANCE DomainsPage
JobList == INSTANCE JobsPage
JobDetails == INSTANCE JobDetailsPage
Upload == INSTANCE UploadPage
Verify == INSTANCE VerifyPage
Home == INSTANCE HomePage
Payment == INSTANCE PaymentPage
Credit == INSTANCE CreditsPage
History == INSTANCE HistoryPage
Account == INSTANCE AccountPages
Contact == INSTANCE ContactPage
Transfer == INSTANCE TransferPage
Security == INSTANCE SecurityPage

Opened(name) == name \in Start
On(name) == ui.page = name

Init ==
  \/ Opened("users") /\ Users!Init
  \/ Opened("server") /\ Server!Init
  \/ Opened("jobcontrol") /\ JobControl!Init
  \/ Opened("apikeys") /\ ApiKeys!Init
  \/ Opened("cache") /\ Cache!Init
  \/ Opened("logs") /\ Logs!Init
  \/ Opened("license") /\ License!Init
  \/ Opened("brand") /\ Brand!Init
  \/ Opened("packages") /\ Package!Init
  \/ Opened("smtp") /\ Smtp!Init
  \/ Opened("profile") /\ Profile!Init
  \/ Opened("domains") /\ Domain!Init
  \/ Opened("jobs") /\ JobList!Init
  \/ Opened("details") /\ JobDetails!Init
  \/ Opened("upload") /\ Upload!Init
  \/ Opened("verify") /\ Verify!Init
  \/ Opened("home") /\ Home!Init
  \/ Opened("payment") /\ Payment!Init
  \/ Opened("credits") /\ Credit!Init
  \/ Opened("history") /\ History!Init
  \/ Opened("account") /\ Account!Init
  \/ Opened("contact") /\ Contact!Init
  \/ Opened("transfer") /\ Transfer!Init
  \/ Opened("security") /\ Security!Init

\* What the user, a timer or a push does, and an answer that arrives.
UsersStep == On("users") /\ (Users!Click \/ \E r \in net, o \in Outcome : Users!Answer(r, o))
ServerStep == On("server") /\ (Server!Click \/ \E r \in net, o \in Outcome : Server!Answer(r, o))
JobControlStep ==
  On("jobcontrol") /\ (JobControl!Click \/ \E r \in net, o \in Outcome : JobControl!Answer(r, o))
ApiKeysStep ==
  On("apikeys") /\ (ApiKeys!Click \/ \E r \in net, o \in Outcome : ApiKeys!Answer(r, o))
CacheStep == On("cache") /\ (Cache!Click \/ \E r \in net, o \in Outcome : Cache!Answer(r, o))
LogsStep == On("logs") /\ (Logs!Click \/ \E r \in net, o \in Outcome : Logs!Answer(r, o))
LicenseStep ==
  On("license") /\ (License!Click \/ \E r \in net, o \in Outcome : License!Answer(r, o))
BrandStep == On("brand") /\ (Brand!Click \/ \E r \in net, o \in Outcome : Brand!Answer(r, o))
PackageStep ==
  On("packages") /\ (Package!Click \/ \E r \in net, o \in Outcome : Package!Answer(r, o))
SmtpStep == On("smtp") /\ (Smtp!Click \/ \E r \in net, o \in Outcome : Smtp!Answer(r, o))
ProfileStep ==
  On("profile") /\ (Profile!Click \/ \E r \in net, o \in Outcome : Profile!Answer(r, o))
DomainStep == On("domains") /\ (Domain!Click \/ \E r \in net, o \in Outcome : Domain!Answer(r, o))
JobListStep == On("jobs") /\ (JobList!Click \/ \E r \in net, o \in Outcome : JobList!Answer(r, o))
JobDetailsStep ==
  On("details") /\ (JobDetails!Click \/ \E r \in net, o \in Outcome : JobDetails!Answer(r, o))
UploadStep == On("upload") /\ (Upload!Click \/ \E r \in net, o \in Outcome : Upload!Answer(r, o))
VerifyStep == On("verify") /\ (Verify!Click \/ \E r \in net, o \in Outcome : Verify!Answer(r, o))
HomeStep == On("home") /\ (Home!Click \/ \E r \in net, o \in Outcome : Home!Answer(r, o))
PaymentStep ==
  On("payment") /\ (Payment!Click \/ \E r \in net, o \in Outcome : Payment!Answer(r, o))
CreditStep == On("credits") /\ (Credit!Click \/ \E r \in net, o \in Outcome : Credit!Answer(r, o))
HistoryStep ==
  On("history") /\ (History!Click \/ \E r \in net, o \in Outcome : History!Answer(r, o))
AccountStep ==
  On("account") /\ (Account!Click \/ \E r \in net, o \in Outcome : Account!Answer(r, o))

ContactStep ==
  On("contact") /\ (Contact!Click \/ \E r \in net, o \in Outcome : Contact!Answer(r, o))
TransferStep ==
  On("transfer") /\ (Transfer!Click \/ \E r \in net, o \in Outcome : Transfer!Answer(r, o))
SecurityStep ==
  On("security") /\ (Security!Click \/ \E r \in net, o \in Outcome : Security!Answer(r, o))

Next ==
  \/ UsersStep \/ ServerStep \/ JobControlStep \/ ApiKeysStep
  \/ CacheStep \/ LogsStep \/ LicenseStep \/ BrandStep
  \/ PackageStep \/ SmtpStep \/ ProfileStep \/ DomainStep
  \/ JobListStep \/ JobDetailsStep \/ UploadStep \/ VerifyStep
  \/ HomeStep \/ PaymentStep \/ CreditStep \/ HistoryStep
  \/ AccountStep \/ ContactStep \/ TransferStep \/ SecurityStep

Spec == Init /\ [][Next]_page

-----------------------------------------------------------------------------

\* What each page asks the server for.
Endpoints(name) ==
  CASE name = "users" ->
         {"users", "users/action", "create", "edit", "adjust_credits", "impersonate"}
    [] name = "server" ->
         {"server/list", "server/add", "server/save", "server/late", "server/toggle",
          "server/delete", "key"}
    [] name = "jobcontrol" -> {"data", "save", "cleanup"}
    [] name = "apikeys" -> {"keys", "create", "rotate", "revoke", "stats"}
    [] name = "cache" -> {"cache/stats", "policies", "lookup", "invalidate", "purge",
                          "purge-older", "upload"}
    [] name = "logs" -> {"logs", "clear"}
    [] name = "license" -> {"status", "backups", "maintenance", "license", "backup", "upload",
                            "delete", "restore"}
    [] name = "brand" -> {"brand", "save", "router"}
    [] name = "packages" -> {"submit", "flags", "delete"}
    [] name = "smtp" -> {"data", "save", "test", "template"}
    [] name = "profile" -> {"refresh", "name", "password", "webhook", "secret"}
    [] name = "domains" -> {"domains", "add", "upload", "toggle", "delete"}
    [] name = "jobs" -> {"jobs", "delete", "retry", "pause", "resume"}
    [] name = "details" -> {"status", "retry", "pause", "resume", "delete"}
    [] name = "upload" -> {"upload", "stats"}
    [] name = "verify" -> {"verify", "stats"}
    [] name = "home" -> {"status", "verify", "config"}
    [] name = "payment" -> {"save", "test"}
    [] name = "credits" -> {"packages", "cancel", "capture", "pay"}
    [] name = "history" -> {"stats", "history"}
    [] name = "account" -> {"login", "register", "forgot-password", "verify-email",
                            "reset-password", "resend-verification", "resend-reset"}
    [] name = "contact" -> {"settings", "contact", "config"}
    [] name = "transfer" -> {"transfer", "stats"}
    [] name = "security" -> {"dashboard", "verify-logs", "blocklist", "settings", "unblock"}
    [] OTHER -> {}

\* No page piles up requests: a click sends two at most, and an answer to
\* something a user asked for is followed by two more at most, those by none.  A page that was left has
\* none, and no page is left with the answers to another's.
TypeOK ==
  /\ ui.page \in Start \cup {"left"}
  /\ Cardinality(net) <= 2 * MaxCalls
  /\ \A r \in net : r.id \in 1 .. 2 * MaxCalls /\ r.to \in Endpoints(ui.page)
  /\ ui.busy \subseteq Endpoints(ui.page)

\* A button that is disabled, or spins, has a request in flight that will
\* release it: no path through the handlers (an error, a success, a form
\* reset in between) leaves a flag set for good.  The forms with a
\* captcha go on to fetch the settings under the flag of the form.
WaitsFor(f) == IF f = (IF On("home") THEN "verify" ELSE "contact") THEN {f, "config"} ELSE {f}

SpinnerHasRequest == \A f \in ui.busy : \E to \in WaitsFor(f) : Asking(to)

\* The requests a page means to send one at a time: each group has at most one
\* member in flight.  Forms whose reset also clears isSubmitting are not among
\* them, nor what is sent without a flag, nor the save of a worker server,
\* which sends two requests and is free again when the first of them fails.
Exclusive ==
  CASE On("server") -> {{"key"}}
    [] On("jobcontrol") -> {{"cleanup"}}
    [] On("apikeys") -> {{"create"}, {"rotate", "revoke"}}
    [] On("cache") -> {{"purge", "purge-older"}}
    [] On("logs") -> {{"clear"}}
    [] On("license") -> {{"backup"}, {"upload"}, {"restore"}, {"maintenance"}}
    [] On("packages") -> {{"delete"}}
    [] On("profile") -> {{"password"}}
    [] On("domains") -> {{"add"}}
    [] On("details") -> {{"pause", "resume"}, {"retry"}, {"delete"}}
    [] On("upload") -> {{"upload"}}
    [] On("verify") -> {{"verify"}}
    [] On("home") -> {{"verify", "config"}}
    [] On("contact") -> {{"contact", "config"}}
    [] On("transfer") -> {{"transfer"}}
    [] On("payment") -> {{"test"}}
    [] On("credits") -> {{"pay"}}
    [] OTHER -> {}

OneAtATime ==
  \A group \in Exclusive : Cardinality({r \in net : r.to \in group}) <= 1

\* A log list never shows an entry twice and never outgrows its buffer, however
\* pages, live entries, filters, refreshes and a clear-out interleave.
LogRowsDistinct ==
  On("logs") \/ On("security") =>
    /\ Len(ui.rows) <= IF On("logs") THEN MAX_BUFFER ELSE MAX_SHOWN
    /\ \A i, j \in 1 .. Len(ui.rows) : ui.rows[i] = ui.rows[j] => i = j

\* One package at most carries the badge "popular", in whatever order the
\* answers of several edits arrive.
AtMostOnePopular ==
  On("packages") =>
    Cardinality({p \in DOMAIN ui.plans : "popular" \in ui.plans[p]}) <= 1

\* Once a rotation of the worker key was answered, the page never goes back to
\* an older key: a reveal and a rotation do not overlap.
KeyFollowsRotation == On("server") => ui.key = 0 \/ ui.key >= ui.acked

\* The uploads of one selection carry one key, so a retry after a lost answer
\* finds the job of the first try and is not charged again: unless the key
\* was cleared by another drop while the selection stayed.
RetriesShareAKey ==
  On("upload") /\ ~ui.spoiled =>
    \A a, b \in ui.srv.jobs : a.file = b.file => a.key = b.key

\* What the form says of its key ("Stable key for this file selection
\* (retries reuse the same key)", form.tsx): one selection, one job.
OneJobPerSelection ==
  On("upload") => \A a, b \in ui.srv.jobs : a.file = b.file => a = b

\* A captcha token that was sent is gone once the answer is handled, whatever
\* the answer was: the next check needs a new one.
TokenUsedOnce ==
  [][\A r \in net \ net' :
       \/ r.to = "verify" /\ On("home") /\ ui'.page = "home"
       \/ r.to = "contact"
       => ui'.token # r.arg.token \/ r.arg.token = 0]_page

\* A confirmation on a page of the account is about that page: "verified" is
\* shown for an active account only, "changed" after a change of the password,
\* also when answers arrive after the user has gone to another page.
ConfirmationIsTrue ==
  On("account") /\ ui.done =>
    IF ui.at = "verify-email" THEN ui.srv.account = "active" ELSE ui.srv.changes > 0
=============================================================================
