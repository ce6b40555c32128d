# Verification of the Docker upstream manager for Zoraxy

The plugin scans Docker hosts for published ports, adds them as upstream
origins of Zoraxy's proxy rules, and moves the origins of many rules from one
host to another when a host dies ("bulk switch"). This directory holds TLA+
modules of it, the TLC configurations that check them on small instances, and
proofs that TLAPS checks for every value of the constants. Paths like
`switch.go:204` are relative to `src/`.

## 1. The system

| part | source | state | operations | talks to |
|---|---|---|---|---|
| bulk switch, execution | `switch.go` `executeUpstreamSwitch`, `handlers.go` `handleBulkSwitch` | per request: domains, a semaphore, one goroutine per rule with its listing and result lines | list rules, list a rule's origins, move / activate / remove an origin, answer | Zoraxy, page |
| bulk switch, preview | `switch.go` `planUpstreamSwitch`, `handlers.go` `handleSwitchPreview` | per request: the plan so far | list, plan, answer; label ports with `hostPortOwners` | Zoraxy, Docker, page |
| origin rewriting | `switch.go` `switchOriginHost`, `splitHostPort` | none | pure | - |
| Zoraxy API client | `zoraxyapi.go` | none; 15 s timeout | list, add, update, remove; `ListLinkedOrigins` | Zoraxy |
| page: bulk switch | `web/index.html` | dropdowns, plan shown, tick boxes, two buttons | preview, tick, confirm, show result, refresh | the handlers |
| page: hosts | `web/index.html` | list of hosts, one editor with `editingId`, calls under way | load, open, cancel, save, remove, reload | the handlers |
| page: scan | `web/index.html` | results shown, timer, filters | scan, filter, copy, set as upstream | the handlers |
| host configuration | `config.go`, `handlers.go` | host list and polling interval in memory, `config.json`, an RWMutex | upsert, remove, set interval, load, save | file system, page |
| scan | `handlers.go` `handleScan`, `scanHost`, `buildService`, `filterLinked`, `probe.go` | per request | list containers and services of every host, derive candidates, hide duplicates, probe, link to rules | Docker, Zoraxy, config |
| Docker client | `dockerclient.go` | none | one-shot requests, endpoint parsing | Docker |
| CSRF token | `handlers.go` `noteCSRF`, `handleGetCSRF`, `embed_webserver.go` `populateCSRFToken`, `web/index.html` `loadCSRF` | the last token, an RWMutex; the page's token | note, get, serve, load | Zoraxy, page |
| lifecycle | `main.go`, `mod/zoraxy_plugin` | process | introspect, configure, serve, terminate | Zoraxy |

What is hard, and what makes each part correct:

* **Execution.** Every worker decides from one listing taken at its start while
  other requests, an administrator and its own earlier calls change the rule.
  A drop is two calls that can fail separately. A call that timed out can still
  be applied later. Origins are compared by lower-cased text in the plugin and
  by exact text in Zoraxy. Correct means: only selected rules change, and only
  as asked; a port that was served stays served unless a failure is reported;
  the result list is complete and true; the request is answered.
* **Preview and page.** The plan, the tick boxes and the dropdowns are three
  pieces of state that change independently, answers come in any order, and the
  execution plans anew. Correct means: what is executed is what was shown.
* **Configuration.** Memory is changed before the file is written, the file is
  truncated before it is written, and the plugin may stop at any point. Correct
  means: what was acknowledged is on disk, and the lock is always released.
* **Scan.** Reads the host list twice, ignores failures of single hosts, rules
  and service listings, and suppresses ports across hosts.
  Correct means: a port is hidden only when a service is shown for it, every
  candidate is probed, and it is linked to the rules that use its port at one of
  the hosts.
* **Origins as text.** Four functions take the same text apart in different
  ways, and a switch writes texts that all of them read later. Correct means:
  a switch exchanges the host and nothing else, finds an origin exactly where
  it points, and the scan and the labels of the preview agree with it.
* **Host editor.** `editingId` is set by buttons and by answers of calls, which
  come in any order, while the user goes on. Correct means: a save overwrites
  the host that is shown, or none; the list catches up with the configuration;
  "Host saved" is not said of what the plugin or Zoraxy refused.
* **CSRF.** The plugin keeps one token for all sessions, the latest; a page
  needs its own, and may be an old copy from a cache with another's. Correct
  means: another session's token reaches a page only in the window between the
  two locks of `handleGetCSRF`.
* **Lifecycle.** The terminate handler must be on the mux that is served; it is
  registered on the default one (`main.go:69`), which is not.

## 2. The modules

```
  Upstreams <--- ZoraxyRules <--- BulkSwitch ----------+
      ^               ^              ^                 +--- SwitchSession
      |               +--------------|-- SwitchPreview +
   Failover  <=== refinement ========+
   HostRegistry <=== refinement === HostConfig        Candidates <--- Scan
        ^
        +--- HostPage ---> CsrfToken

   OriginText, PortOwners <--- OriginLife ---> Upstreams
```

**Upstreams** (data only). An origin is a record of its host as written and its
`rest` (scheme, port, path), which a switch never changes. What the code does
with the text is given by three functions: `Fold` (`strings.ToLower`,
`EqualFold`), `Bare` (the brackets `splitHostPort` drops) and `Bracketed` (the
brackets `switchOriginHost` adds before a port). `PointsAt`,
`SwitchOriginHost`, `Existing`, `ExistingActive` are the tests of
`switch.go:176-203`. A rule's upstreams are a function from origins to
`absent`, `inactive` or `active`.

**ZoraxyRules** (external). Zoraxy's rules as `zoraxyapi.go` sees them: a call
succeeds, is refused, or times out; a call that timed out is kept in `late` and
may be applied at any later time, or never. An administrator's edits and
`handleApplyUpstream` change rules too, at most `MaxEdits` times.

**BulkSwitch** (the core). `phase[j]` is where the handler of request `j` is,
`worker[j][r]` is the goroutine of the request for rule `r`:

| action | code |
|---|---|
| `Receive` | guards of `handleBulkSwitch` |
| `ListEndpointsFails`, `StartWorkers` | `switch.go:151-166` |
| `Acquire`, `Publish` | the semaphore, `switch.go:168-169`, `223-227` |
| `ListUpstreams`, `ListAnsweredWithErrorBody`, `ListUpstreamsFails` | `switch.go:172-188` with `zoraxyapi.go:266-299` |
| `SkipAtTarget`, `SkipExisting` | `switch.go:191-200` |
| `ActivateCounterpart`, then `RemoveOrigin` | `switch.go:201-214` |
| `MoveOrigin` | `switch.go:216-220` |
| `Reply` | after `wg.Wait()` |

One Zoraxy call is one step, everything a goroutine does between two calls is
part of the step. Origins are handled active ones first, as `ListUpstreams`
lists them; among equals the order is free.

**Failover** is the abstract promise of a switch: an origin moves to another
host, an origin is made active, an origin is retired only while another active
one serves the same port and path. `BulkSwitch!Promise` maps to it by `rules`.

**SwitchPreview** and **SwitchSession** add the preview request and the page:
dropdowns (`sel`, over the hosts `Offered`), the plan on the page (`shown`), tick boxes, the two buttons
with their enabling, and the answers as they come. `agreed[j]` is a history
variable: the plan that was shown when switch `j` was confirmed.

**HostConfig** is `configStore` with the handlers that write it. A change is
made in memory under the lock (`Changes`), then the save goes through
`Truncates`, `Writes` and `Acknowledges`, or `SaveFails` at any of these points;
`Stop` and `Start` come in between. The first file may be unreadable too.
**HostRegistry** is its abstract
specification: a map from ids to hosts with a durable copy that is always some
state the map has had, or unreadable.

**Candidates** (data only) is what a scan computes: the rows `scanHost` and
`buildService` make of a host's containers and services, the rows a service's
port hides (`Hides`), and which origin of a rule `filterLinked` shows for a row
(`Allowed`, `Link`). Texts are taken up to letter case, which the code
lower-cases before it compares.

**Scan** is one request to `handleScan`: `phase` is where the handler is,
`host[h]`, `dial[a]` and `reader[d]` are the goroutines of its three batches.

| action | code |
|---|---|
| `Begin`, `HideAndProbe`, `LinkRows` | the handler between the batches, `handlers.go:197-209`, `209-246`, `258-293` |
| `ListContainers`, `ListServices` and their failures | `scanHost` with `dockerclient.go:238-353` |
| `DialStep` | `probe.go:35-48` |
| `ListEndpoints`, `Acquire`, `ReadRule` and their failures | `ListLinkedOrigins`, `zoraxyapi.go:167-221` |
| `EditsHosts`, `DaemonChanges`, `RulesChange` | the world during the scan |

The list of hosts is read twice, into `hosts` and `again`; `found` is what was
read of the rules. A scan writes nothing others read, so overlapping scans do
not disturb each other on the server and one is modelled.

**OriginText** (data only) has the texts: a text is a sequence of separators
(`:` `/` `[` `]`) and words, and `SplitHostPort`, `Matches`, `Rewritten`
(`switch.go`), `OriginHost`, `OriginPort` (`zoraxyapi.go`), `FormatAddr`
(`handlers.go`), `HostPort`, `SuggestedAddress` (`dockerclient.go`) are what the
code does to them, each in its own way. **PortOwners** (data only) is
`hostPortOwners`: services win, tasks do not count.

**OriginLife** follows one origin: it is written by hand or added from a
candidate, labelled in a preview, and switched between hosts without end. Next
to the text `origin` it keeps `meant`, a record that changes only as
`Upstreams!SwitchOriginHost` says. So it relates the two levels: that the text
stays the text of `meant` is what entitles `BulkSwitch` to take origins for
records of a host and a rest. Texts the code reads in two ways are told by
`Readable`; what becomes of them is not followed.

**CsrfToken** is the way of the token from the header of a request into a page:
`ServePage`, then `GetCSRFNotes` and `GetCSRFReads` (two steps: the handler
takes the lock twice), then `LoadCSRF`; `OtherSessionNotes` is any other
session's request. The page may be served or come from a cache with any
session's token in it. In neither case does its script take that token:
`populateCSRFToken` replaces every `{{.csrfToken}}` of the page
(`embed_webserver.go:72`, `85`), also the one the script compares the meta tag
with to see whether it was replaced (`index.html:233`), so that the comparison
always says it was not. `CSRFOfPage` is this comparison. A page therefore has no
token until `api/csrf` answers. **HostPage** extends the module with the page's
host list and editor:

| action | code |
|---|---|
| `PageLoaded` | the load event: `loadCSRF`, then `loadConfig`, `index.html:859` |
| `OpenAdd`, `OpenEdit`, `Cancel` | `openEditor` and the cancel button |
| `PressSave`, `PressRemove` | `saveHost`, `removeHost` up to the await |
| `NotLetThrough` | Zoraxy refuses a POST without its session's token, with 403 |
| `AnsweredElsewhere` | another program answers: the plugin is stopped, the session over |
| `HandleUpsertHost`, `HandleRemoveHost`, `HandleGetConfig` | `handlers.go:87-165` on the map of HostRegistry |
| `ReadSaved`, `ReadSaveFailed`, `ReadRemoved`, `ReadConfig`, `CallFails` | the code after each await |

`call[s]` is a call under way, from the press to the end of the reload that
follows it. `intact`, `told`, `bare`, `behind`, `newest` and `crossed` are history
variables: whether the editor was changed by anything but the user since it was
opened, which answers but the right one were shown as "Host saved", whether a
call was sent without a token, and how a reload or a token was overtaken.

The symmetry of `session` and of `host_page` is sound: requests, previews, calls
and host ids are told apart by nothing but their name, and the properties are
invariants and one that speaks of single steps.

`MC*.tla` give the constants values for TLC; `MCOriginLife` also has TLC confirm
that its values satisfy `WellWritten`. `*Proofs.tla` hold the theorems.
Definitions commented "Mutant:" are used by no specification; each is a
plausible bug in the operation that follows it, and shows that a run's property
notices it.

## 3. The runs

| run | question | bounds |
|---|---|---|
| `switch_faults` | Is one request complete, true, confined to its rules, and answered, under every fault? | 2 rules, 1 port, a name in two letter cases and an IPv6 literal in two spellings (two origins rewrite to one text), semaphore of 1, accepted and refused requests |
| `switch_crowd` | Does a clean answer mean failover when the request is repeated or doubled, and do opposite requests, an edit, a deleted rule and late calls leave the report complete and the rules to those selected? | 2 requests, equal or opposite, 1 rule, a host in two letter cases, 1 edit |
| `switch_quiet` | Without faults, do two concurrent equal requests implement `Failover`? | 3 hosts, 2 ports |
| `session` | Is the execution exactly the plan, with answers out of order, refused calls and the button pressed again during a switch? | 1 rule, whose origins may be in two letter cases of an offered host, 2 previews, 2 switches, exchangeable (symmetry) |
| `config_faults` | Are acknowledged changes on disk, ids unique, the lock released, and the registry implemented? | 2 clients, 2 ids, 2 values each, 2 intervals |
| `scan_faults` | Is what a scan answers right although listings fail and hosts, services and rules change meanwhile, and does it answer? | 2 hosts, 6 host lists, 1 container and 1 service of 2 ports, 2 rules, semaphores of 2 and 1, one change |
| `origin_life` | Does a switch exchange the host of a text and nothing else, find it where it points, and do scan and labels read the same? | 5 hosts: a name, one in capitals, an IPv6 literal, an unnamed one, a local socket; 4 spellings by hand, 2 schemes, 3 ports, 3 paths |
| `host_page` | Does the list catch up, a save overwrite only the host it shows, does a page, cached or not, get its own token, and is it told of refusals? | 3 ids, 2 values, 2 calls of the user, 2 under way at once, 1 change by others, 2 sessions |

These pass. The following are violated, by what the code does:

| run | what it shows |
|---|---|
| `switch_activation_refused` | a failed activation is noted, and the source is removed all the same, reported as "X stays active" (`switch.go:204-211`) |
| `config_removal_retried` | a removal whose save failed is repeated, answered ok, and back after a restart (`config.go:135`) |
| `candidate_not_switched` | an origin the plugin itself added for a host, by its address, is not found by a switch from that host, by its name (`switch.go:254`) |
| `page_add_again` | after a host was added the editor keeps its id: the next "Add Docker host" overwrites it (`web/index.html:529`) |

`DropKeepsTargetActive` fails without any fault too: with the constants of
`switch_crowd`, no faults and no edits, two opposite requests each remove the
origin the other relies on, and the rule ends up empty while both report
"stays active".

The activation also fails without any fault when the target is in the rule
under another letter case: it is found by lower-cased text, but activated under
the text it was to get. `ServedLostOnlyAfterFailedActivation` covers that case:
the failure is in the result list, whatever its reason.

Other disagreements were met while modelling and have no run of their own.

*Switch.* An error answer to a listing reads as a rule without origins, and
nothing is reported (`zoraxyapi.go:284`). Dropdowns changed after the preview
are executed though nothing was planned for them (`web/index.html:422`;
`NothingBeyondThePlan` says what holds while they are as planned), and every
reload of the hosts resets them. README.md:151 says a dead host is never
contacted; the preview asks it for its ports, which costs a timeout and no more.

*Texts.* A host without a name is named after its endpoint, a URL; a switch to
it writes `tcp://c:2375`, or `[tcp://c:2375]:80`, into the origin
(`handlers.go:133`). An origin without a port becomes a bare IPv6 literal, which
`splitHostPort` reads as host and port (`switch.go:268` says literals must be
bracketed): it cannot be switched back. A `://` in the path of an origin without
scheme is taken for its scheme. A host whose name has brackets can be switched
to and not from. A bracketed literal without a port is cut at a colon by
`originHost`. An origin without a port is looked up under port 0, which is the
key of a service's unpublished ports (`switch.go:122`, `310`).

*Page.* The answer of an earlier save sets `editingId` of an editor that was
opened since. Cancel leaves the fields and the label "Edit host" without an id:
a save from there adds a duplicate, as does a double click, or a repeated save
whose answer was lost. The answer of a removal is not looked at. A scan that
fails leaves "Scanning hosts" on the page, and overlapping scans show whichever
answers last. An interval below zero is a timer without delay on the page, and
10 in the plugin.

*Answers that are no JSON.* The page takes each of them for success
(`index.html:262-266`, `525-530`): "Host saved" is shown over Zoraxy's 403, over
the page of an error while the plugin is stopped or of a login once the session
has expired, whether or not the host was saved, and whatever token the page has.
`editingId` then is null, also under the label "Edit host", so that the next
save adds a duplicate. In a scan such an answer shows as "No docker hosts
configured yet". `RefusalsAreTold` promises only what is left: an error of the
plugin is shown as one, and the 403 comes only to a page that sent a call
without a token or was crossed. It says nothing of the other answers, which
`host_page` has (`AnsweredElsewhere`, and `HandleUpsertHost` whose answer is
replaced).

*Token.* The comment of `index.html:228-230`, and "keep meta value" (277), say
that the page starts with the token of its meta tag and keeps it when `api/csrf`
fails. It never has it, see CsrfToken in section 2: until `api/csrf` has
answered, and for good if it fails, every POST goes without a token, is refused
with 403, and a save shows "Host saved". The same defect is what keeps the
token of a cached page from being used: without it (the mutant
`ServePageMetaTaken`) `TokenIsOwn` and `RefusalsAreTold` are violated by a
cached page whose `api/csrf` fails.

*Scan.* A candidate that is itself an origin of a rule may be linked to the rule
by another origin: the code compares with the host's name, candidates carry its
address (`handlers.go:311`).
README.md:133 says that "unlinked" candidates of plain containers are
suppressed; the code suppresses linked ones as well, before it looks for links
(`handlers.go:222-231`), and `HiddenOnlyForShownService` states what the code's
comment promises. And origins with a host's IPv6 address are never linked: `originHost`
keeps the brackets of the origin, the list of allowed hosts has the address
without; `LinkedIffUsed` leaves such lists out.
README.md:129 calls a candidate linked if a rule "already has that `host:port`".
The code links any origin with the candidate's port at any of the hosts
(`zoraxyapi.go:163-166`, `handlers.go:254-257`): in `scan_faults` a rule with
port 80 of the second host is shown with the first host's port 80, also with that
of a plain container. `LinkedIffUsed` states the code's rule, not the README's.
And the hosts are those of the second reading of
the list, where the comment speaks of the scanned ones.

*Bounds.* `MaxEdits` bounds edits by others; every other state component is
finite by itself. Two rules suffice because workers share only the semaphore
and touch only their own rule; with `MaxParallel = 1` the second waits for the
first, which a capacity of 8 shows with nine rules only. Two requests suffice
for a race on a rule: each step of the code relates one worker to the rule.
Three hosts include a bystander, four two spellings of both hosts. The
initial rules are all functions from origins to states without two spellings
of one origin (`FoldedUpstreams`), so rules that already have the target,
active or not, and rules that have only bystanders, are all there.
In `switch_crowd` one edit is enough to put a change of another's between any
two steps; a second would only repeat it. In `origin_life` the number of
switches is not bounded: the texts that can come of the five hosts are finitely
many. Paths hold a URL in one case, ports are missing in one. In `host_page` two
calls are what overtaking needs, and each is followed by a reload, so that up to
four answers race; a third id is what an addition and another user's draw.
In `scan_faults` two hosts are what hiding across hosts and preferring one's
own need; the lists differ by a removed, a renamed, an unaddressed, a wildcard
and an IPv6 host, and `MaxChanges = 1` puts one edit at any point between the
two readings of the list. Up to three addresses compete for two places and two
rules for one, where the code has 24 and 8.

*Fairness.* `FairSpec` assumes weak fairness for each handler and each worker:
Go schedules runnable goroutines, and each HTTP call ends by the client's
15 s timeout. Nothing is assumed of late calls or edits. One weakly fair
action per worker is enough for the semaphore, because all steps of one
request's workers are finitely many. The same holds of `Scan`, where one weakly
fair action for all goroutines of the request is enough: every call ends by its
timeout (1.5 s, 5 s, 10 s or 15 s). `HostConfig!Spec` assumes that the operating
system answers each file operation; starts, stops and requests are not fair.
`OriginLife` and `HostPage` assume none and promise only safety: a user need not
press anything, and an answer may never come.

## 4. What is proved

Every proof rests on the named assumptions of the modules it is about
(`TextAssumption`, `StoreAssumption`, `SwitchAssumption`, `SessionAssumption`,
`ConfigAssumption`, `PageAssumption`, `CandidateAssumption`, `ScanAssumption`,
`WordAssumption`, `LifeAssumption`), which TLC evaluates in each run. So a
theorem holds for any numbers of requests, rules, hosts, calls and edits, and
any set of faults. Ten theorems need more,
which is then their hypothesis, satisfied by the constants of the run named;
the last column has the inductive invariant.

| theorem | states | needs in addition | argument |
|---|---|---|---|
| `BulkSwitchProofs!TypeCorrect` | `TypeOK` | | `IInv` |
| `BulkSwitchProofs!SelectedRulesOnly` | `OnlySelectedRulesMove` | | `IInv` |
| `OutcomeProofs!CleanRepliesHold` | `CleanReplyMeansFailedOver` | | `OutcomeInv` |
| `OutcomeProofs!ServedIsKeptOrNoted` | `ServedLostOnlyAfterFailedActivation` | | `OutcomeInv` |
| `OutcomeProofs!QuietSwitchKeepsPromise` | `KeepsThePromise` | `Quiet`, `OneSpelling` (`switch_quiet`) | `OutcomeInv`, `NothingNoted` |
| `OutcomeProofs!SwitchesKeepFolded` | `NoFoldedDuplicates` | `OnePair` (`switch_crowd`) | `DistinctInv` |
| `FailoverProofs!FailoverKeepsServing` | `ServedNeverShrinks` | | every step of `Failover` |
| `OutcomeProofs!ReportComplete` | `EveryMatchedOriginReported` | | `AllAccount` |
| `OutcomeProofs!ReportsAreTrue` | `ReportIsTrue` | `Alone` (`switch_faults`) | `OutcomeInv`, `ExplainedInv` |
| `SessionProofs!SessionTyped` | `SessionTypeOK` | | `SessionInv` |
| `SessionProofs!PlanIsKept` | `NothingBeyondThePlan` | `OneSpellingEach` (`session`) | `SwitchInv`, `PlansInv` |
| `SessionProofs!PlanIsCarriedOut` | `WholePlanExecuted` | `ListingsSucceed` (`session`) | `SwitchInv`, `DueInv` |
| `HostPageProofs!PageTypes` | `PageTypeOK` | | inductive |
| `HostPageProofs!TokenStaysOwn` | `TokenIsOwn` | | `TokenInv` |
| `HostPageProofs!EditedHostOnly` | `OnlyTheEditedHostChanges` | | `EditorInv` |
| `HostPageProofs!RefusalsStayTold` | `RefusalsAreTold` | | `TokenInv`, `TellInv` |
| `HostPageProofs!ListStaysCurrent` | `ListIsCurrent` | | `ListInv` |
| `HostConfigProofs!TypesKept` | `TypeOK` | | inductive |
| `HostConfigProofs!HostsNamedOnce` | `OneEntryPerHost` | | `HostLists` |
| `HostConfigProofs!AcknowledgedSurvives` | `AcknowledgedIsOnDisk` | | `SaveInv` |
| `HostConfigProofs!StoreImplementsRegistry` | `ImplementsRegistry` | | the list read as a map |
| `ScanProofs!TypesKept` | `TypeOK` | | `ScanInv` |
| `ScanProofs!RowsProbed` | `EveryRowProbed` | | `DialInv` |
| `ScanProofs!HiddenForShownOnly` | `HiddenOnlyForShownService` | | `RowsInv` |
| `ScanProofs!LinkedExactlyUsed` | `LinkedIffUsed` | | `LinksInv` |
| `ScanProofs!OwnNameFirst` | `OwnNamePreferred` | | `LinksInv` |
| `OriginProofs!OriginTyped` | `TypeOK` | | `TypeInv` |
| `OriginProofs!SwitchKeepsTheText` | `OnlyTheHostChanges` | `WellWritten` (`origin_life`) | `TextInv` |
| `OriginProofs!SwitchFindsByText` | `FoundWhereItPoints` | `WellWritten` | `TextInv` |
| `OriginProofs!ScanReadsTheRecord` | `ScanReadsTheSame` | `WellWritten` | `TextInv` |
| `OriginProofs!ScanKnowsItsOwn` | `ScanFindsItsOwn` | `WellWritten` | `TextInv`, `OwnInv` |
| `OriginProofs!LabelIsTrue` | `LabelPublishesThePort` | `WellWritten` | `TextInv`, inductive |

### The execution

`TypeOK` is not inductive: a rewritten origin is an origin only if the
request's target host is not empty, which holds because `handleBulkSwitch`
refused the others. And a late call, which has outlived its worker, must be
known to do what its request asked for. `IInv` therefore adds
`HandlersAccepted` (a handler past its guards has an acceptable request),
`WorkersAsked` (a worker that exists was selected, and what it still has to do
points at the source host) and `LateOrdered` (each call on its way does what
its request asks for). Steps of a worker are reduced to two lemmas: a step
without a call (`LocalKeeps`) and one with an ordered call (`CallingKeeps`);
`AppliedAsAsked` says what an ordered call changes in a rule, whether it is
answered at once or arrives late. `SelectedRulesOnly` is the README's "Only the
selected rules are touched", made precise for concurrent requests and late
calls: what disappears pointed at the source host of a request that selected
the rule, what appears or changes is written for its target host.

*Outcomes.* A worker decides from one listing, taken before the others and
their late calls changed the rule. What makes its decisions right all the same,
as long as all requests are between the same two hosts and nobody edits
(`Undisturbed`, which the properties have as their premise), is that a rule can
then only change in one direction: origins of the target host are there to stay
and stay active, others may only disappear (`Improves`). So what a listing says
remains true in the way that counts (`SeenAsItIs`); what the worker is through
with has failed over or has an error (`FailedOver`); between the two calls of a
drop the target is active or its activation was noted (`AboutToDrop`); what was
reported as switched is gone and its target there (`SwitchedIsGone`). A call is
`Sound` if it fits this, and it stays so while it is late.

*Failover.* A `Quiet` switch (no faults, no edits, one pair of hosts) notes no
failed activation, so every removal is covered, and is a step of `Failover`.
`OneSpelling` (no two texts that differ in case only) is needed because a target
under another letter case is activated under a text that is not there.
`FailoverKeepsServing` then holds of it.

*Duplicates.* Two opposite requests may each have found no target, and both move
their origin. What prevents a duplicate is that there is then one origin of the
port and path between the two hosts (`AtMostOne`), so that one of the moves is
refused (`MayMove`, `Single`). `OnePair` says that all requests are between one
pair of hosts, in either direction, that targets are named without brackets and
rules start without duplicates and with origins spelled as a switch would spell
them. It cannot be dropped: with a third host, two moves of different origins
arrive at one text in two letter cases.

*Report.* What a worker has reported and what it still has to do are together
what its listing matched (`Accounts`). For `ReportsAreTrue` every change of a
rule since the listing is `Explained` by a line about the origin or about the
one it came from, and so is what a late call will change. `Alone`: one request,
no edits; another request's changes are in that request's list.

### The session

`SessionInv` adds to the types that nothing runs for a request not sent, that
only rules of the plan on the page are ticked and sent, and that a preview under
way was accepted.

For `PlanIsKept`, a plan `Covers` a rule if it is right about each origin that
would now be switched, and what the invariant `PlansInv` says of previews, of
the plan shown and of the plans agreed to is that they do so as long as all
switches sent so far are between the hosts of the plan. A switch keeps this
because what it changes are origins it is through with: those it has not reached
look as they did (`LooksAlike`). `OneSpellingEach` says that offered names have
no brackets, that no initial rule has two origins of one port and path at an
offered host, and that nobody else edits. Where a rule has two such origins in two
letter cases, the plan updates both; once the first is, a switch sent again drops
the second, which was not shown. `SwitchInv` says what result lines
mean: they agree with the decision for the listing (`Decided`). Together: a line
about an origin is about one the listing had to be switched, which the plan
covers.

For `PlanIsCarriedOut`, each planned action is `Due` until a worker of the only
switch sent has listed the rule; then the worker accounts for it.
`ListingsSucceed`: no listing fails and nobody else edits; an activation, a move
or a removal may.

### The page

* `TokenStaysOwn`: a page, cached or not, starts without a token; what the
  plugin has noted, and what its answer holds, is the page's own once it has been
  noted for it, unless it was crossed.
* `EditedHostOnly`: an editor nothing has touched has the id of the host it
  shows, and so has each save sent from it. A save that draws an id draws one
  that no host has.
* `RefusalsStayTold`: a call without the page's own token, and a 403, need a
  page that has sent a call without a token or was crossed by another session
  (`Backed`); a request that was not made yet was not crossed (`CrossedInv`).
* `ListStaysCurrent`: a reload that read the latest version read what there is
  (`UpToDate`), and a list that is not `behind` is that, or a call is under way
  that will load it (`Reloads`).

### The configuration

`SaveInv` says that the lock is held exactly by the request whose save is under
way, and that the file is truncated, or what is in memory, from there on. For
the refinement, the list is read as a map, which is possible because a host is
named once (`MapFinds`); replacing or appending an entry changes the map in one
place (`WithHostPuts`), removing the first entry takes it out
(`WithoutHostDrops`). Truncation, writing and a start are steps of the
registry's durable copy, all else of a save is a stutter. `ConfigAssumption`
has that no file the plugin may start from names a host twice.

### The scan

From the hiding on, the addresses dialed are those of the candidates
(`DialInv`). A finished host has a container row for each published port it
listed (`Holds`), the candidates are all rows but the hidden ones (`RowsInv`),
and a service's row is never hidden, so what hides a row is shown. No rule is
read before the rules are listed and none after the links are made, so that
links are those of the rules as read, at hosts of the list read last
(`LinksInv`); `FirstOf` is the first origin of a sequence with a property, and
the origin with the own name is taken before it.

### The texts

A text is a sequence, and what is proved of it is where its separators are.
`LeastExists` and `GreatestExists` give `strings.Index` and `strings.LastIndex`
their places (`PlaceIs`, `LastColonIs`); for a record written as expected,
`TextAt` says where each part of its text begins. From this `SchemeRead`,
`PathRead` and `SplitRead` show that the code, taking the text apart, gets the
parts it was made of, `SwitchRead` that `Rewritten` makes the text of the record
that `Upstreams!SwitchOriginHost` makes (`Moved`), `MatchesRead` and `ScanRead`
that a switch and a scan read its host and port. They rest on `Readable`, which
the record must be to be followed.

`WellWritten` says what the code expects of the parts: a scheme is a word and
`://`, a port is a decimal number from 1 to 65535 whose word letter case does
not change, a path begins with `/`, and a host that is not a whole URL has
brackets around it or not at all. Each is needed: a path without a slash is
read as part of the host, a port that is no number is read as no port, and a
bracket within a name ends the host there. It holds of any host with a name or
an address as such; it excludes a host that has no name and an endpoint like
`[::1]:2375`, whose name is then that text.

`OwnInv` says that the host of an origin the plugin wrote is the name or the
address it was written for, up to brackets. `LabelPublishesThePort` is inductive
with `TextInv`: a label is made from one reading of the text and goes when the
text changes.

### Only model-checked

* The liveness properties `EveryRequestAnswered`, `EveryScanAnswered` and
  `LockIsReleased`: fairness is out of TLAPS's reach here.
* What the four runs of violated properties show is shown by TLC.

## 5. What is not modelled

* An error answer with status 200 to the listing of a rule that exists:
  `ListAnsweredWithErrorBody` has it of a deleted rule, the one case in which
  Zoraxy is known to give one.
* In `BulkSwitch` the text of origins, which `OriginText` has. Texts are taken
  to be trimmed, words are tokens, and what `url.Parse` refuses is left out.
* That Zoraxy finds origins by exact text, refuses an update onto a text the
  rule has, and applies a call atomically: assumptions about another program.
* `Served` counts ports and paths up to letter case and takes any active
  origin as serving: whether the host behind it is up is outside the plugin.
* The semaphore of the preview. In `SwitchSession` the loss of an answer between
  page and plugin and more than one tab. A page with fewer than two hosts, whose
  dropdowns are equal or empty, sends nothing.
* The page's scan pane: rendering, filters, the timer. It keeps no state but
  what it shows. `Ping`, the dot of a host, the message bar. A page that is
  reloaded is a new page.
* Readers of the configuration: each holds the read lock for one copy.
  A second entry with the same id, possible only by editing the file by hand.
* Of the scan: images, states, notes and private ports; the order of rows
  and hosts in the answer. Containers without a network publish no ports. Of
  the Docker client: HTTP, TLS, version negotiation, `Ping`. A plugin without a Zoraxy
  API (`s.zoraxy == nil`) scans as one whose rules cannot be listed.
* The lifecycle: introspection and the wiring of routes run once and keep no
  state, and the end of the process is `Stop` of HostConfig. Of the plugin
  library only `populateCSRFToken` is reached; `static_router`,
  `dynamic_router`, `dev_webserver` and `events` are not called.

## 6. Plan

Done: every module of section 2 with its runs, and the proofs of section 4.

Next, in this order:

1. `NothingBeyondThePlan` without `OneSpellingEach`, for a switch that is sent
   once.
2. **ScanPane**: the timer and overlapping scans, if the page gets an order of
   its answers to promise something about.
