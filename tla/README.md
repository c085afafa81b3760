# TLA+ verification of openstack-infra

The repository is the combined configuration of the OpenStack project infrastructure: some seventy puppet modules, the
daemons and scripts they install, the job scripts of project-config and the administration tools of system-config.
Most of it is declarative. The programs that run for a long time, run concurrently or change something that cannot
be taken back are few, and they are what this project models.

1. Inventory  2. Modules and the code they model  3. Runs, bounds, fairness  4. Proofs  5. Disagreements with the text
6. What is not modelled  7. Plan

## 1. Inventory

### The log pipeline

    Jenkins --ZeroMQ--> log-gearman-client --geard--> log-gearman-worker --TCP--> logstash
                        (two threads a master)    \-> subunit-gearman-worker ---> subunit2sql database
    job --zuul_swift_upload--> swift, the log server ----HTTP----^

| part | state | operations | interaction |
|---|---|---|---|
| `log-gearman-client.py` | a subscription and the list of files of each EventProcessor, one gearman connection, geard in a child process | receive an event, one job a configured file, a new subscription after any error but one in opening it | events from ZeroMQ, jobs to geard |
| `log-gearman-worker.py` | retriever thread, bounded queue, main thread with its socket, CRM114 subprocesses | take a job, fetch the log, score and queue its lines, answer; send a line, wait, reconnect | geard, HTTP server, CRM114, logstash |
| `subunit-gearman-worker.py` | retriever thread, bounded queue, main thread | take a job, fetch the stream, queue it, answer; store a stream | geard, HTTP server, database |
| `zuul_swift_upload.py` | list of files and index pages, then a queue, a pool of threads, a signature with expiry | walk the folders, make the pages, queue what is not too large; post a file, up to three times | file system, swift |

Hard: two threads with a queue of limited length between them and a subprocess at the side; a log that grows while
it is fetched; jobs handed out again after a lost connection; restarts of every party; answers that promise what is
still in memory; retries of posts that may have been carried out; a wait built from sleeps that may end early.

Correct if: no line or stream is forgotten, reordered, doubled or silently dropped on a path that is not a crash;
an answer to geard means what geard's clients take it to mean; nobody waits for ever while the rest of the system
works; a fetch is whole if the log was complete in time; every file is tried by one thread, and swift has it whole.

### Administration programs

| part | state | operations | interaction |
|---|---|---|---|
| `accessbot.py` | dialogue with ChanServ, channel and list in work | compare a list with channels.yaml, send the changes one by one | IRC services, operators |
| `checkaccess.py`, `check_irc_access.py` | the same dialogue, a verdict so far | list the access of one channel after another | ChanServ |
| `launch-node.py` | what was made in the cloud | keypair, server, address, bootstrap, take down | cloud API, ssh, puppet |
| `convert_node_to_xenserver.sh` | a state file, the boot loader's default, a ramdisk, an appliance | one stage a boot | init of two systems, installer, the appliance, snapshots |
| `maintain-infra-groups.py`, `update-gerrit-group.py` | the detail of a group as it was read | create, include, own, show, one put each | gerrit, each other |
| `haproxy-statsd.py` | the last value of each counter | read the table, send differences | haproxy, statsd |
| `gerrit-git-prep.sh` | a workspace repository | clone, update, check out with retries | gerrit, zuul merger |
| `vcsrepo/git.rb` | a repository on disk | create, convert, fetch, reset | puppet agent, git |
| `safe_jenkins_shutdown`, `restart_jenkins_masters.yaml` | quiet-down mode, builds, offline nodes | wait, delete nodes, restart | Jenkins, nodepool |
| `run_all.sh` and its playbooks, `ansible-puppet` | version of the configuration on each host | one playbook after another | puppet on every host |
| `rename_repos.yaml` | names in database, disk, storyboard | stop, rename, reindex, start | gerrit, zuul |
| bandersnatch mirror scripts | mirror volume, tokens | mirror with time limit, purge, release | PyPI, AFS |

Hard: failures between two calls that belong together, state read before and used after somebody else may have
changed it, reboots between two writes, notices that answer nothing, loops that wait for somebody else.

Correct if: a failed run leaves nothing behind or can be repeated, a finished one has done all it reports, and it
comes to an end.

### Checks and rewriters of the configuration

| part | state | operations | interaction |
|---|---|---|---|
| `project-requirements-change.py` | requirements of a change, of its branch and of the global list | read, look for duplicates, validate, report | git, openstack_requirements |
| `check_valid_gerrit_projects.py`, `jenkins-projects-checks.py`, `irc_tests.py`, `layout-checks.py` | errors so far | one pass after another over the entries of a file | the gate |
| `normalize_acl.py` | the sections of an ACL file | parse, seven transformations, sort, write or print | the gate, which runs it again |
| `mass_rename_projects.py` | three yaml files, the files of jobs, ACL files in a working tree | rename, substitute, move | git, sed |

Hard: a verdict made of many partial ones, of which a late one may undo an early one; shortcuts that compare counts
instead of members; rewriting that has to come to rest; a run that is stopped and repeated on what it left.

Correct if: what passes is right and what is refused is wrong, what is rewritten passes and nothing else is lost.

The complete list of parts, with those that are not modelled, is in `PROJECT.json` under "components"; the lines
where the code is hard to test, with the properties that watch them, are under "hazards".

## 2. Modules and the code they model

| module | models | shape |
|---|---|---|
| `SemiBusyWait` | `semi_busy_wait` of both workers | one action, an iteration of the loop with a sleep of any length |
| `LogFetch` | `_retrieve_log`, `_get_log_data` | one action a request, wait or decoding; the log is a sequence of pieces, so a piece skipped or read twice shows |
| `LogWorker` | `log-gearman-worker.py`: both threads of each of several processes, CRM114, geard, TCP, logstash | one action a step of a thread between two points where the other one can be seen |
| `Handover` | what a worker promises: an item is taken over once and leaves once, to the sink or lost, and a WorkComplete names only items that were taken over | abstract specification, four actions |
| `LogWorkerHandover` | refinement mapping from `LogWorker` to `Handover` | INSTANCE with `StageOf` |
| `SubunitWorker` | `subunit-gearman-worker.py`, with its own refinement mapping to `Handover` | as `LogWorker`, but its main thread survives every error |
| `LogClient` | `log-gearman-client.py`: EventProcessors, subscriptions, submissions, restarts | one action a receive, file, error or reconnection, which may fail and then ends its thread |
| `UploadList` | the main program of `zuul_swift_upload.py` up to its queue: `build_file_list`, `make_index_file` | one action a look at an argument or directory, between which files vanish; a tree of nodes with names, a page is the set of its links |
| `SwiftUpload` | `PostThread`, `_post_file`, `swift_form_post` | one action a step of a thread |
| `AccessBot`, `MCAccessBot` | `accessbot.py` and the services it talks to | the bot is driven by notices; requests and notices are queues, in order; the services may refuse a request |
| `LaunchNode` | `launch-node.py` with `utils.py` and `sshclient.py` | one action a stage; each call works, fails, or fails after it took effect; the list an address is looked for in may lag behind |
| `XenServerConversion` | `convert_node_to_xenserver.sh` | one action a command that changes something; what is written is on disk for sure only after a sync or an orderly reboot, and a stop of the machine between any two commands keeps, loses or tears each file by itself; the appliance reboots beside the script |
| `CheckAccess` | both access checks, chosen by `prog` | driven by notices, as `AccessBot` |
| `GerritGroups` | both group tools, run side by side | one action a request, which gerrit answers, refuses, or carries out without an answer |
| `HaproxyStatsd` | `haproxy-statsd.py` | one action a key of a row, since an error in the middle leaves part of the pass done |
| `Requirements`, `MCRequirements` | `project-requirements-change.py` | one action a stage of main or an entry; a requirement is a version, a comment and its extras |
| `ConfigChecks` | four checks of the gate | one action an entry or pass; an entry is the set of its faults |
| `AclFile` | `normalize_acl.py` and the gate's second run of it | one action a line or transformation; a file is a sequence of headings and options, an ACL the set of its options with the lines they came from, since the final sort forgets the order they were read in |
| `MassRename` | `mass_rename_projects.py`, stopped and run again | one action a file; lines of jobs are sequences of mentions of a repository |
| `MCPrograms` | `SemiBusyWait` and the nine programs that share nothing, with their inputs for TLC | the programs' next-state relations as alternatives, chosen by `program` at the start |
| `MCLogWorkers` | `LogWorker` with the symmetry of its workers | |
| `SequenceFacts` | lemmas on sequences (Tail, Append, order, first and last occurrence) and smallest sets | used by the proof modules |
| `LogWorker_proof`, `SubunitWorker_proof`, `LogClient_proof`, `SwiftUpload_proof` | theorems about the module of that name | extend it and TLAPS |
| `LogFiles_proof` | theorems about `LogFetch` and `UploadList` | a section each |
| `Tools_proof` | theorems about `LaunchNode` and `AccessBot` | a section each |
| `Programs_proof` | theorems about `SemiBusyWait` and the programs of `MCPrograms` but `UploadList` | a section each |

Variables carry the names of the code (`logq`, `raw_buf`, `current_channel` as `current`) where there is one;
`rpc`, `ppc`, `pc` are the points a thread can be at. Variables marked "history" are read by properties only. Constants marked "bound" limit what the environment does
(restarts, outages, edits) and never what the program does. Text, log messages and formats are left out; a line of a
log is a record of job, run, number and whether it was scored.

`PROJECT.json` maps every definition to the lines it stands for. Definitions called "a plausible mistake" are
alternatives of the definition that follows: the properties are checked to fail with them.

How the modules hang together: `LogFetch` is the step `fetch` of `LogWorker`, `SemiBusyWait` the wait inside
`LogFetch` and in front of the resend in `LogWorker`. They are kept apart because they share nothing but their
results: a fetch gives lines or raises, a wait ends. Both workers are compared with the same `Handover`. `UploadList`
ends with the queue `SwiftUpload` starts from, which knows the files only by number. The programs under `MCPrograms` run on
different machines or at different times and have no common variable, so that an interleaving of two of them would show
nothing that each by itself does not; inside each, everything it talks to is interleaved with it.

## 3. Runs, bounds, fairness

| run | asks | bounds, and why they are enough |
|---|---|---|
| `log_fetch` | one fetch against an upload in progress | 3 pieces, one length that cuts a character in the text and one in the last 8 bytes: enough for every order of growth, Range, retry and decoding; the backoff limit is the code's 129 |
| `log_workers` | order of lines, and jobs, with two workers | 2 workers, 1 job handed out twice, 2 lines, queue and wire of one, one outage, one stop: every queue is full and empty, a second line waits behind a failing one, and the first worker goes on with a job that was given to the second. Without filter, which is private to a worker. The workers are interchangeable (symmetry; no temporal property is checked here) |
| `log_worker_handover` | forgotten lines, the filter, death, refinement and liveness | 1 worker with its filter, as many lines as hand, wire and queue hold and one more |
| `log_client` | events and jobs | 1 processor (they share only the connection; the proofs have any number), 3 events, 2 files, buffer of 2: an event is dropped, one in work, one behind it |
| `subunit_worker` | answers, streams, refinement, liveness | job handed out 3 times: at work, queued, and stored or lost at once |
| `subunit_worker_twice` | one answer a job (does not hold) | |
| `swift_upload` | files, threads, expiry | 3 files, 2 threads: one file more than threads |
| `swift_upload_empty` | a retry uploads the file (does not hold) | |
| `access_bot` | lists end as configured | 2 channels, 2 nicks, 2 flags, every access list at the start, every request refused or not, 1 edit, 1 stray notice: each can fall between any two steps |
| `launch_node` | what remains of a failed launch, what a launched server has | every combination of keypairs, floating ips and Ext-Net, every set of users let in, 2 users, 1 command, 2 polls: loops are entered, repeated and exhausted; proved for all |
| `programs` | what each of ten programs promises, see below | see below |
| `requirements_broken_branch` | a broken branch does not fail the check (does not hold) | |

The run `programs`, by program:

| program | properties | bounds |
|---|---|---|
| wait | `FullWaitUnlessTwoEarly`, `WaitsEnd` | 8 ticks, overrun 1: the loop ends after few iterations, since it subtracts a growing time; proved for all lengths |
| statsd | `IncrementsAddUp` | 2 servers, a gauge on either side of two counters, one field that is always empty, a reply cut after any field, a session or restart at any time |
| groups | `Maintained` | one repository with groups of its own, of puppet and the council: every path through `configure_group`; the other program at any point, two runs |
| access | `ExitIsEarned`, `WaitsEnd` | 3 channels, any of them without, with other or with the right flags, or unregistered; one stray notice: a first, a middle and a last channel |
| requirements | `VerdictIsJustified` | one package in two files and on the global list, lines with and without extras, with a comment, or twice: all that is compared, in any combination |
| list | `PagesFit` | 4 files and folders in a chain and in a fork with an argument beside it, links, broken links, files that vanish at any time, pages and files that are too large, four sets of options |
| acl | `NormalisedPasses`, `NothingElseLost` | every two lines below a heading, and files with no, or a repeated, heading: transformations look at one option at a time |
| rename | `RenameIsWhole` | 2 projects, one or both renamed, every acl-config and set of files, two kinds of lines, one stop at any point |
| checks | `VerdictIsRight` | files of up to 2 entries of up to 2 faults: a verdict can be lost to the next entry or to the next pass |
| convert | `OnlyWindowsHurt`, `ReadyIsCurrent`, `WaitsEnd` | 2 stops anywhere, with every mixture of old, new and torn files, 3 instances: the first is converted, the second is a snapshot, the third a snapshot of a snapshot |

Deadlock is not checked, since each of these systems may stop: a launch, a fetch, an upload end, and a worker ends
when logstash stays away or the environment has used up its bound.

Fairness, always weak and only on what the code or the operating system schedules:

- the two threads of a worker are scheduled, CRM114 ends when its input is closed (the assumption of the comment at
  `log-gearman-worker.py:104`), logstash reads while it is up (`LogWorker`, `SubunitWorker`);
- geard's connection comes back and threads are started and scheduled (`LogClient`); nothing is assumed of a new
  subscription: it may fail to open, and may never be established;
- every HTTP request is answered or raises (`LogFetch`, `SwiftUpload`): the code passes no timeout there, and the
  hazards name the lines;
- the bot handles its notices and the services answer, be it with a refusal or, for a list, with nothing more (`AccessBot`);
- a command or call ends (`LaunchNode`);
- time passes, ChanServ and the program take their turns, the next command or boot comes, and what the systems start
  beside the conversion script comes up: Ubuntu's network, XenServer's API, the appliance (`WaitsEnd`, which says that
  each of these programs comes to its end and stays there); nothing is assumed of stray notices, lost connections,
  stops of the machine and new instances. The loops at `convert_node_to_xenserver.sh:442`, `:456`, `:530` and `:546`
  have no limit: that they end is this assumption.

Nothing is assumed about crashes, outages, edits, hand-outs or uploads: they may never come.

What the runs show, besides the answers above: a line is only ever lost with a process or a connection; a restart of
logstash within the 90 seconds is survived, and only an outage after them ends a worker; an event that arrived is
lost only to an error in an earlier event of the same thread; a thread of the client stops for good only where the
new subscription cannot be opened, since `_connect_zmq()` is called in the except clause; the bot waits for ever where
a service refuses what it needs, because it acts on notices only; it may work from stale lists without acting
against the configuration, because it sends flags as differences; a launch that fails leaves nothing
behind except an address it could not attach or that the list it cleans up from did not show yet, and what a call made
without telling it; an index page has no dead link but to a file given as an argument that vanished after it was looked at first. Of the programs: the differences
haproxy-statsd sends always add up; a group is as planned unless a put was refused unseen or the other program came in
between; the conversion survives every stop that leaves its files as the stage found them or as it leaves
them, whatever was written in between, but not one that tears them: boot loader and state file are on two file systems, written
without a sync between them, and the ramdisk and the appliance cannot be made twice. It also touches its file of completion
as soon as the appliance answers, which may be before the appliance reboots: then the appliance is ready with
the settings it came with, and after its reboot not ready at all. `OnlyWindowsHurt` and `ReadyIsCurrent` except these two cases, torn disk
(`unlucky`) and touch too soon (`hasty`), and no others; and the first version of the access check speaks only of the last channel it asked about.

## 4. Proofs

Everything below is proved by TLAPS for every value of the constants, under the named assumption of the module, which
TLC evaluates on every run. They say no more than the code: counts are natural numbers, sets that the code walks through
are finite, queues hold at least one (`WorkerAssumption`, `StatsAssumption` and so on); that a channel is configured once
(`ConfigAssumption`); that marks such as `NoAcl` or `NoChannel` are none of the things they stand beside; that no directory
lies below itself (`ListAssumption`). `FetchAssumption` keeps the limit of the backoff away from 0 and 1,
where the loop would double for ever or not at all, and `BackoffScheduleKept` is about the limit of the code, 129.

| module | theorem | argument |
|---|---|---|
| `LogFiles_proof`: `LogFetch` | `FetchTypeCorrect`, `FetchedWithoutGap` | of a server that honours Range the worker holds a beginning of the log (`HoldsPart`): what a range request adds starts where it ended |
| | `BackoffScheduleKept` | `Schedule`: all waits but the one to come add up to one less than that; `UploadTimed`, `CameLater`, `Earned`: what was there at a request is in the buffer after it, and what came later came within the waits since. Then 129 is reached after exactly 255 ticks |
| | `FetchIsBounded` | `StepsLeft`, at most `4 * BackoffLimit + 6`, counts the doublings that are left and the steps within one; every step of the worker lowers it, an upload leaves it |
| `LogFiles_proof`: `UploadList` | `PagesFitTogether` | `Visited`: the directories walked so far are closed under parents, and none of them has to be walked again; `LinksGood`: a link leads to what is on the list, to an argument that vanished, or to a directory still to be walked; `SeenOK`: what the root index is to show is on the list, has vanished or is the argument in hand; `RootOK`. Two nodes of one path are below two arguments of one name (`PathsDiffer`) |
| `LogWorker_proof` | `TypeCorrect`, `CompleteAccounted`, `LinesAreKept` | `CompleteIsAccounted` is not inductive: a job is completed after its last line was queued. `RetrieverOK` ties the points of the retriever to its loop, `LoopAccounted` says that the lines before `next` are accounted for, `NothingForgotten` that a line that is known stays known |
| | `OneWorkerAJob`, `DeathNeedsOutage` | the first is inductive once `RetrieverOK` says when a worker holds its connection; `SecondAttempt`: the second attempt fails only where logstash was down at or after the end of the wait |
| | `LinesInOrderOnce` | `InOrder` along the whole way wire, hand, queue of a worker, `OwnLines` (a run of a job is one worker's), `Behind`: what is still to be queued comes after what is anywhere on the way |
| | `FilterContained` | scored lines are a beginning of those of a run, because an active filter has scored all there is of it (`ActiveScores`), and one that failed is not asked again (`AtPut`) |
| | `NobodyWaitsForAll` | a full queue is not an empty one; `WireOK`: what is sent has a logstash to read it; `EndedOK`: a process that has ended leaves no queue; `ReapOK`: a filter is waited for only once its input is closed |
| | `LogWorkerImplementsHandover` | every step is one of `Handover` or leaves `StageOf` and `Promised` as they are |
| `SubunitWorker_proof` | `SubunitTypeCorrect`, `StreamsStoredOnce`, `SubunitImplementsHandover` | `OnePlace`: an event is in one place; `Faithful`: what is whole was retrieved; `RetrieverOK`, `CompletedTraced` |
| | `FirstAnswerIsTheException` | `AnsweredSoFar` ties the answers of a job to the point the retriever is at |
| `SwiftUpload_proof` | `UploadTypeCorrect`, `FilesInOnePlace`, `AllTried`, `FinishedIsFinal` | `OneAtATime` with `ThreadsOK`: a thread ends only at an empty queue or after the expiry, and threads that were never started have no file |
| | `UploadIsBounded` | every step but the expiry takes something from `FileWork`, `ThreadWork` or `MainWork`, which are finite, and puts nothing in; `StartOK` (all threads up to the last are started) gives that until the end somebody can go on |
| `LogClient_proof` | `NoFileForgotten`, `JobsInOrderOnce`, `LossIsExplained` | `ReadOK`: events are in the socket in order and beyond the one in work; `SubmittedOK`: what is submitted lies before it; `HeldOK`; and `CauseOK`, that a processor that reconnects has read something it could not handle |
| `Tools_proof`: `AccessBot` | `BotTypeCorrect`, `BotConverges`, `BotObeysConfig` | `OneList`: one list is asked for at a time, behind all other requests, and no change is computed before its end; `ListIsTrue`: but for what was disturbed, what was collected and is still to come is the list of the start; `Progress`: an entry the bot has judged is as wanted or its change is on its way, and carried out twice it does the same |
| | `BotWaitsOnlyWhereRefused` | `OnItsWay`: between two lists there is a request or a notice on its way that the bot does not just pass over, and of the list it has asked for the request or the end, unless what it needs was refused (`Stranded`) |
| `Tools_proof`: `LaunchNode` | `LaunchTypeCorrect`, `FailedLaunchesAreCleanedUp`, `LaunchedServersAreWhole` | `MadeOK`, `AddressOK`, `UpOK`: what exists at each point of the program, so that taking down covers it; a loose address always has a history that explains it, and an attached one is found when it is taken down unless the list did not show it |
| `Programs_proof`: `SemiBusyWait` | `FullWaitTheorem`, `NeverTooLongTheorem` | until the second early sleep `seconds` is what is really left; then the loop may only end too soon, not too late |
| `XenServerConversion` | `ConversionHurtOnlyInWindows`, `ReadyApplianceIsCurrent` | `ConversionInv`: unless a stop tore the disk, state file, boot loader, ramdisk and appliance are what `Written`, `Default` and `HasOne` say of the next command, the installer runs (`Installing`), or all is done (`Complete`). `OnDisk`: until the sync what is on disk for sure is what the stage found, so that a stop that is neither repeatable nor finished is the torn one. `Transferred`: from the command that stores them on, the settings are those of the instance, and the appliance, once it was told, has them or is about to reboot |
| `HaproxyStatsd` | `StatsAddUp` | inductive with the types, once a key is seen to belong to one row and column |
| `CheckAccess` | `ExitCodesAreEarned` | `Dialog`: what ChanServ has said of the current channel, and has yet to say; `Covered`: no channel is passed over, and the first one comes last; `FailedMeans`: what a failure so far says of those checked |
| `ConfigChecks` | `VerdictsAreRight` | `Within`, `LookedAt`: what is known of the entries before the next one, pass by pass; `LastValid` for the entry that is only reported after a valid one |
| `Requirements` | `RequirementsVerdict` | a change that says what its branch says fails nothing (`Harmless`), and what is no longer to be validated has been accepted |
| `MassRename` | `RenamesAreWhole` | `NamesInv`: a file that has been written has the new names, in runs that were stopped too; `AclInv` of one that was not: each ACL file is where it was or where it is to be, and what is still to be moved is on the list |
| `GerritGroups` | `GroupsComeIntoLine` | `Behind`: the groups behind the program are as planned, but for those it is excused of (a put was refused unseen, or the other program came in between); `Current`: what it has read of its group still holds, and what it is past is done; `Second`: in a second run that nothing disturbs there is nothing to change |
| `AclFile` | `NormalisedFilesPass`, `NothingElseIsLost` | `ParseInv`: what has been parsed is what stands below headings that do not occur again before the line reached; every option knows its line, so that "as many as before" is a bijection and not a count; `RestInv`: what one transformation has left, none of the others touches; `WrittenInv`: a sorted set of lines has one enumeration (`SortedIs`), so that to parse and sort what was written gives it back |

The prover has no induction over data. Where a proof needs one, it takes a smallest set instead: among the subsets of a
finite set with some property there is one without a smaller one (`SmallestSet` of `SequenceFacts`, from the
well-founded ordering of the library). So are found the last place of a value in a sequence (`LastPosition`) and the
paths of `UploadList`, which a recursive function computes: nodes without a path would include one whose parent has one.

Only model-checked: all liveness (`FetchEnds`, `NothingStays`, `JobsAreAnswered`, `CatchesUp`, `UploadEnds`, `BotEnds`,
`LaunchEnds`, `WaitsEnd`), since what follows from fairness is out of this prover's reach. For four of them the part that is a
safety property is proved for every value of the constants. `FetchIsBounded` and `UploadIsBounded` bound the steps of those
that fairness keeps going, so that of `FetchEnds` and `UploadEnds` only "and they take them" is left to TLC.
`NobodyWaitsForAll` (for `NothingStays`) and `BotWaitsOnlyWhereRefused` (for `BotEnds`) exclude that everybody waits
for somebody else, but for the refusals it names; that logstash comes back often enough is left to fairness and TLC.

`NeverTooLong`, the type invariants and `NotTouchedAgain` of `SwiftUpload` are proved, and no run repeats them.

Two properties changed when they did not prove. `SecondRunIsQuiet`, the second half of `Maintained`, had held in TLC for want
of a group: with `release` among the groups of puppet, a second run whose read of a group fails
puts it once more, to create what exists. Puts that create a group are therefore no longer counted as changes. `VerdictIsJustified` lacked a way to pass: lines that are
the global ones word for word, which are not compared any further.

## 5. Disagreements with the text

Three have a run that ends in a counterexample and are listed as findings:

- `subunit-gearman-worker.py:86`: a job whose stream cannot be retrieved is answered with an exception and, for want
  of a return, completed as well; a None goes to the queue. `FirstAnswerStands` shows that the exception is the
  answer that counts.
- `zuul_swift_upload.py:369`: a retry posts a file object that was read to its end.
- `project-requirements-change.py:254`: "Don't error on the target branch being broken" (`:210`), but a duplicate in
  the branch fails the check.

Others were met while modelling and have no run of their own:

- `semi_busy_wait` promises a minimum wait (`log-gearman-worker.py:44`) but subtracts the time since the start in
  every iteration (`:50`): two early sleeps shorten it. `FullWaitUnlessTwoEarly` is what holds.
- "Try for up to 255 seconds" (`log-gearman-worker.py:255`): the last wait is not followed by a request.
- `zuul_swift_upload.py:372`: `attempt <= 3` holds for all attempts, so the last failure is not raised.
- `zuul_swift_upload.py:500`: `index_file` stays empty, so that the address printed is that of the folder.
- `checkaccess.py:76`: every notice clears the failure, corrected in `check_irc_access.py`.
- `normalize_acl.py:148`: what comes to nothing is printed as an empty line and never passes the gate.
- `jenkins-projects-checks.py:142`: an unknown entry is reported but only fails the check if the entry before it did.
- `utils.py:101`: a floating ip that could not be attached is not deleted with the server.
- `utils.py:231`: exit codes of the puppet agent other than 1 and 124 count as success.
- `gerrit-git-prep.sh:27`: `git_timed` exits, so the garbage collection meant to repair the repository (`:80`) is
  never reached; `wait_for_nova.sh:8`: with `-e` the loop cannot wait; `ansible-puppet/library/puppet:162`: a
  timeout by signal 9 is not the 124 tested for at `:213`.

## 6. What is not modelled

- The puppet manifests, job definitions, layouts and ACLs: their meaning is that of programs outside this repository.
- Zuul, nodepool, gerrit, geard, Jenkins, logstash, swift, ChanServ: environment, as seen from the code here.
- Text: patterns, file names, commit messages, the format of channels.yaml and projects.yaml.
- One-shot sequential scripts whose failure ends them and leaves nothing to interact with.
- In modelled programs: UDP and stdout output of the log worker, `--noop` of the bot, icons and sizes on index pages, the
  parser of openstack_requirements, the choice of image and flavor of a launch, and `--volume`, which its main refuses.
- Cases left out of modelled programs, on which no property depends: a file of `mass_rename_projects.py` that a stop cuts off
  where it still parses as a shorter one; XenServer's own database, of which an import is taken to be there or not;
  a second write to a file that was torn by a stop before, since the properties say nothing after a torn disk.
- Hazards outside the modelled parts, met while reading: `remote_puppet_git.yaml:16` and `run_all.sh:28`, a failed git
  server ends one playbook and the next one runs; `rename_repos.yaml:20`, a failed move leaves gerrit stopped with the
  new names; `vcsrepo/git.rb:139`, the conversions are reached only without a repository to convert;
  `safe_jenkins_shutdown:34`, a node that was deleted meanwhile ends the pass.

## 7. Plan

Done, in this order: SemiBusyWait, LogFetch, LogWorker, Handover and its two refinements, SubunitWorker, LogClient,
SwiftUpload, AccessBot, LaunchNode, each with its proofs as listed; then XenServerConversion, UploadList, CheckAccess,
GerritGroups, HaproxyStatsd, Requirements, ConfigChecks, AclFile and MassRename.

Next, by weight:

1. `VcsRepo`: exists, create, conversion and revision= over an abstract repository with work tree, references and
   two remotes; refinement of "ensure". To hold: no history is lost without force; the second run changes nothing.
2. `GitPrep`: retries and fallbacks over a repository that may be corrupt, cached or half cloned.
3. `JenkinsShutdown`: builds, nodes and nodepool against the loop, with single-use nodes by zuul's node options and
   the restart of one master after the other.
4. `RunAll` and `MirrorUpdate`: versions on hosts; release of a volume under cron and time limits.
5. `LogPipeline`: client, geard and workers composed, an event followed from Jenkins to logstash; the promise of
   `Handover` end to end.

Proofs to come: with each of the modules above its own.
