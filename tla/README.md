# A TLA+ development of hf-to-litertlm

The repository converts open-weight models to `.litertlm` bundles, describes the bundles in manifests that apps read, runs the
converted graphs in runners and demo apps, and measures them on shared Android phones. Most of its lines are conversion scripts:
single processes over tensors and files, whose substance is numerics. These modules model the parts in which the order of steps
decides:

* the device bench, `src/tools/devicebench`: drivers and keepers that share one phone through a hold file and a waiting line,
  chains of measurement legs that outlive or are outlived by their keepers, a monitor and an app that race for a leg's status,
  host scorers in the background. Nothing there is locked;
* a streaming speech runner, `src/nemotron_asr_stream_work/runner`: caches that change places with every chunk, state that runs on
  from chunk to chunk and must not run on from utterance to utterance;
* an image app, `src/bonsai_image_work/device/BonsaiAppAndroid`: a worker thread, a UI thread, taps and an activity that Android may replace;
* bundle manifests, `src/manifest` and `src/readers`: a generator that reads a repo which people upload to, and one decision written
  in two languages.

The rest is listed with the reason it is left out.

Paths below are relative to `src/tools/devicebench/` unless they begin with `src/` or the section says otherwise.

## 1. Inventory

### The parts, their state and their operations

| Part | State it keeps | Operations | What is hard |
|---|---|---|---|
| device hold (`hold/device_hold.py`, `hold_cli.py`) | one JSON file per phone: the owner's pid | `acquire` (refuses a live owner, takes over a dead one's, `force`), `release`, `read` | read and write are separate steps; drivers die between them; a CLI call may outlive the shell whose pid it was given |
| waiting line (`hold/queue_cli.py`) | `<hold>.queue`, `<hold>.queue.tmp` | `enqueue`, `dequeue`, `front`, `list`, `wait` (poll, acquire, dequeue, `finally`) | unlocked load / save, one shared `.tmp`, waits that time out or die, people who edit |
| keeper (`keeper.sh`) | `HOLD_ACQUIRED`, `HOLD_RELEASED`, `GAVE_UP` in the round dir | wait in line, keep, release on request or at `HOLD_LIMIT` | a process of its own: outlives the chain, may die before it |
| chain command (`chain.sh`, `lib.sh`) | `chain.pid`, `keeper.pid`, `RELEASE_HOLD`, `CHAIN_DONE`, `CHAIN_STOPPED` | `run`, `cleanup`, exit trap, `hard_stop` | killed at any step; started again over files of the last time; the phone leaves adb |
| measurement leg (`run.sh gate`, `chain.sh` `monitor`, `leg`) | `R/<tag>.json`, `.running.txt`, `.FG_FAIL`, `.MEMGUARD`, `.run.txt`; on the phone the report, `STOP`, the app | start, poll, stop at the limit, pull; foreground check, memory guard; status | three processes and a phone race; a tag is attempted again over old files |
| plan loop and scorers (`run_chain`, `leg_fg`, `verdict_of`, `score_leg`) | reports, `.attempted`, `.verdict` over all holds of a round | walk the plan, skip, pause for `RESUME`, retry as `<tag>_r2`, score | holds are cut short; background scorers outlive chains |
| transfers (`xfer`, `push_cp`, `send_small`, `ensure_graph`, `swap_to`, `prep_leg`) | files on the phone, the `.sha256` lists | send, poll the byte count, compare hashes, remove old graphs | a transfer that stops growing; a half-done swap |
| ready gate (`lib.sh` `ready_gate`) | none between legs | poll temperatures and caps until ready, or skip | a reading is stale when the leg starts |
| NPU chain (`npu_chain.sh`) | `R/<tag>.stdout.txt`, `.killed_by`, `.lost`, `.leg.json`; on the phone the stage: graphs, JIT caches, the runner | the same hold protocol; `stage_graph`, `evict`, `run_leg`, `runner_monitor`, `cleanup_all` | eviction under a short `/data`; monitor, runner and phone race; what a killed run leaves on the phone |
| pooled verdicts (`pool_parts.py`) | none | pools parts' scorer files into one verdict | a pure function |
| fake phone, dry runs (`fake_adb.py`, `dryrun*.sh`, `test_*.sh`) | test doubles | | not the system |
| streaming speech runner (`src/nemotron_asr_stream_work/runner/nemotron_stream_runner.cc`) | two sets of cache buffers, the pre-encoder's caches, decoder state, the prompt and masks in the graphs' inputs | `run_utt` (load, reset, chunks), `do_chunk`, the joint loop, the latency phase | buffers that outlive an utterance and are written only when they change; slices at an utterance's ends; a loop that ends by the network's answer or by a budget |
| image app (`src/bonsai_image_work/device/BonsaiAppAndroid`: `MainActivity.kt`, `BonsaiPipeline.kt`) | `running`, `pipeline`, `cancelled`, `lastPng`, the views | generate, cancel, share, `onCreate`; the worker's stages and its `finally` | two threads, posts that come late, a flag cleared by the one who must see it, an activity replaced under its worker |
| bundle manifest (`src/manifest/make_manifest.py`) | the file it writes | read the repo's list, read each header, merge the curated file, validate, write | the repo changes between the two reads |
| manifest readers (`src/readers/ts`, `src/readers/dart`) | none | parse, fetch, `resolve` | the same decision twice, over optional fields |
| converter, lock, CLI package (`src/scripts`, `src/pypi`) | lock files | convert, verify, start | sequential; decisions over data |
| other model lanes and demo apps (`src/*_work`) | one directory per model | export scripts, host references, Android / Swift apps | not shared; numerics |

### How they interact

```
 person --starts--> chain.sh run / cleanup --starts--> keeper.sh --runs--> queue_cli.py wait
                        |    ^                            |   |                 |
      RELEASE_HOLD -----+    +---- HOLD_ACQUIRED,         |   +--> hold_cli.py release
                        |          HOLD_RELEASED, GAVE_UP-+                     |
                        |                                   <hold>.queue  <-----+
                        v                                   <hold>        <-----+--- other lanes' drivers
              plan line --> leg: run.sh + monitor --adb--> phone: app, report, STOP
                        |               R/<tag>.* <-- pulled / written
                        +--> scorer in the background --> R/<tag>.verdict --> later plan lines
```

All shared state of the bench is files. A process sees another only through a file, a pid (`kill -0`) or adb.

```
 make_manifest.py --reads list, headers--> Hub repo <--uploads-- publisher      image app:  taps --> UI thread --flag--> worker
        |                                  |   |  \\--copied--> fork                            ^---- posts ----------+
        +--writes manifest--(person uploads)   +--fetch--> reader --resolve--> url --> app
```

A bundle gets from the generator to an app through the Hub. The runner and the image app share nothing with the rest at run time.

### What makes each part correct

* hold: one live user at a time; it is the one the file names; a release removes nobody else's; no
  hold is left that nobody will give back; a dead driver's hold is the only thing that keeps the last one out;
* line: the keepers acquire in the order of the line, one at a time, and share the phone with drivers beside the line; each is served; the line
  recovers from overlapping saves;
* round: the phone is used only under the round's own live hold; `HOLD_RELEASED` is true; two commands never
  work at once; holds and commands end;
* leg: a status says what happened; DONE comes from this attempt's own report, unless the old one's removal was not seen to work; a leg ends;
* NPU chain: a cached leg runs on the whole cache of a compile that ended; a leg's files stay under its runner and
  fit and one runner is up at a time, as long as no look has passed a runner over; a leg is started once; a status says what happened; the chain ends;
* speech runner: each chunk attends to its own utterance's last frames; the decoder's state is the utterance's own; every sample is
  heard; the program ends;
* image app: one graph open at a time; a cancel ends its own run and no other; the screen at rest says what happened; the button
  comes back;
* manifest: a file downloaded with the right hash is the one described, unless an earlier build was put back or an older
  revision asked for; a pinned fetch leads to what it describes, from a fork
  too; the two readers agree and keep to the written rules;
* plan: a verdict is about the report that is there; a leg starts on evidence that still stands; a
  DONE report is never lost; a walk ends.

## 2. Modules

| Module | Models | Uses |
|---|---|---|
| `PhoneUse` | the abstract promise: one user at a time, who stops when it likes or dies | |
| `DeviceHold` | `device_hold.py`, one file-system call per step; implements `PhoneUse` | `PhoneUse` |
| `WaitingLine` | `queue_cli.py`, one file-system call per step of `save`; drivers beside the line; refines `PhoneUse` | `PhoneUse` |
| `ChainHold` | `keeper.sh`, `take_hold`, `release_hold`, `on_exit`, `cleanup_cmd`, `run_chain`'s outline, `cleanup_all`, `run.sh cleanup`; refines `PhoneUse` | `PhoneUse` |
| `Leg` | `run.sh gate`, `monitor`, how `leg` names the status | |
| `LegPlan` | `run_chain`'s loop, `leg_fg`, `verdict_of`, `score_leg`, over several holds | |
| `NpuChain` | `npu_chain.sh`: `stage_graph`, `push_file`, `evict`, `run_leg`, `runner_monitor`, `cleanup_all`, the loop of `run_chain`, over several runs | |
| `StreamRunner` | `nemotron_stream_runner.cc` from the first fixture to the end of the latency phase | |
| `ImageApp` | `MainActivity.kt`, `BonsaiPipeline.generate` | |
| `ManifestReaders` | both `resolve`s and parsers, as operators | |
| `Manifest` | `make_manifest.py`, uploads, forks, an app with a reader | `ManifestReaders` |
| `WaitingLine_proofs` (also uses `PhoneUse`), `ChainHold_proofs` (also proves about `DeviceHold`), `Leg_proofs`, `LegPlan_proofs`, `NpuChain_proofs`, `StreamRunner_proofs`, `ImageApp_proofs`, `Manifest_proofs` | theorems | the module of the name |
| `MCDeviceHold`, `MCWaitingLine`, `MCChainHold`, `MCLegPlan`, `MCNpuChain`, `MCStreamRunner`, `MCManifest` | the values the runs use | |

In the bench each layer takes from the one below what that one establishes: `WaitingLine` has the hold's two steps
that matter to it (read, write), and `AcquiresDoNotOverlap` of the line is the condition
(`Overlap = FALSE`) under which `DeviceHold` is exclusive; `ChainHold` has the line as "a waiting keeper
takes an absent hold"; `LegPlan` has a leg as the report and `FG_FAIL` it leaves.

### DeviceHold

`file` is the hold file by what `read()` makes of it: absent, unattributable (`{}`), or a pid. `acquire`
is `Check` (read, decide), `Open` (`open("w")` empties the file), `Write`; `release` is `CheckOwn`, `Remove`.
`linked` says whose open file still is the one at the path: a write to a removed file changes nothing.
`Die` takes a driver at any step; with `Orphans` its `hold_cli.py` goes on. `exists` and `open` in `read()` are one
step: a file that vanishes between them reads as `{}`, treated as absent by both callers. Some names carry a prefix (`HoldInit`, `HoldNext`,
`HoldTypeOK`): `ChainHold_proofs` extends this module beside `ChainHold`.

### WaitingLine

`line` and `tmp` are the two files, `fd` where a process's open tmp is by now (another process's `os.replace` may
have made it the line itself), `local` its copy. Every change is load, `OpenTmp`, `WriteTmp`, `Swap` (or
`SwapFails`: the tmp is gone). Two writes into one tmp leave either list or text that is no JSON, which
`load` reads as `[]`. A wait is `MarkLoad`, `Look`, `Check`, `TakeHold`, `DequeueLoad`, `Finally`, `UnmarkLoad`. `Others` are drivers that do not
use the line: `drive` says where each is, and it may read the hold (`OtherChecks`), write its own (`OtherTakes`) and give it back (`OtherReleases`) at any time,
again and again. `Overlap = FALSE` keeps two acquires from being between their read and their write at once (`DeviceHold` has what happens when they are).
`Interleaved = FALSE` lets one process at a time be between its load and its replace. The list comprehensions of `dequeue` and `front`
are `Picked`, a recursive function, because `tlapm` knows nothing of `SelectSeq`. `Calm` names the circumstances under which the line
keeps its order; `MCWaitingLine` assumes it of every run in which changes do not interleave, so TLC checks that `line_calm` is an instance of the theorems.

### ChainHold

Command `c` starts keeper `c`. `cpc` and `kpc` are their places in `chain.sh` / `lib.sh` and in `keeper.sh`; the files are
Booleans, the pid files name a command. `present` is adb's view, `dirty` whether the app and the stage dir are on the
phone. `Removal` is what `run.sh cleanup` does: nothing without `HOLD_ACQUIRED` (exit 4), nothing without the phone
(exit 9); else `uninstall` and `rm` may do their work or not (nobody looks at their rc), and the phone may leave, and return, in the middle. A run
starts in two steps (`StartRun` removes the round's files, `NameRun` writes `chain.pid`), a cleanup in four: `StartCleanup` reads both pid files into `seen`,
`Look` asks whether that chain is alive, `Claim` writes `chain.pid`, `See` looks at `HOLD_ACQUIRED` and the keeper. A killed command may leave its
`run.sh` behind (`orphan`, until `OrphanEnds`). `Rule` is what the person sees to: one command at a time (`one`); also the last keeper and everything a
killed command left are gone, or the keeper still keeps the hold of a dead chain that a cleanup is to use (`last`); a cleanup at any time but another command's first
moment, before it has written `chain.pid` (`cleanup`); or a cleanup at any time (`any`).

### Leg

`run` is `run.sh`, `mon` the monitor, `app` / `report` the phone's side, each with the attempt it is of. `running`, `fgFail`, `memGuard` and `json` are the
files of the round dir; they survive into the next attempt, as in the code. Each call to the phone that matters is a step, and the phone may leave and return
between any two: `run.sh` is `Refuse` (exit 4), `Begin` (`present`), `Kill` (the force-stop), `Clear` (the `rm`, whose rc nobody reads), `Launch`, `Look`, the poll, `Pull` and
`Close`; the monitor's second look is `MonRecheck` (the key and `pidof`), `MonReads` (cgroup, top), `MonStop`. Three history variables that the code does not
have: `unsure` (this attempt's `run.sh` refused, or an earlier attempt's app or report was still there after its removal), `behind` (the monitor has seen this attempt's app behind another), and `lmkd`
(when lmkd last killed the tag's app, of which the log's window shows some: `LmkdLines`). A second try (`_r2`) starts also when the first is DONE. Time is left out: a limit or a wait ends at any moment.

### LegPlan

A plan line is its deciding extras (`needs`, `needs_pass`, `prep`, `once`, whether it is scored). `clock` has the three
stretches the code distinguishes (before `SKIP_AFTER - 60`, up to `SKIP_AFTER`, after). `Skip` is any of the reasons to
pass over a line, with the phone's (no time for the whole limit, inputs or graph missing, not ready). `starts` and
`launched` count what no file counts; properties use them.

### NpuChain

`pc` is the chain's place; `client`, `mon` and `runners` are the adb client on the Mac, the monitor, and the runner processes on the phone: three
things that end separately. `graph` and `cache` say of each stage file absent, partial or whole; they and the round dir's `out`
(`stdout.txt`) and `status` (`leg.json`) are what one run leaves to the next. `killed` is the monitor's variable and, once it has ended, the leg's
`killed_by`: no other leg reads that file. Of its three reasons, and of the three statuses that name them (`OOM_GUARD`, `COMPILE_TIMEOUT`, `LIMIT_STOP`; here `STOPPED`), no
later step makes a difference, so each is one value; the monitor's three decisions stay three actions. `fate` is how the runner ended, which the code never learns for certain. `Room` is the bytes of `/data`
less `DATA_MARGIN`; a partial file counts as a whole one. A graph is pushed only when its file is not there (`StageGraph`), as at line 198. Between
steps the phone may leave, reboot and return: `Check` is the one `present` at the start, `List` is `transfer_check`'s `ps` (an absent phone lists nothing, which reads as no runner), and after a
leg `AfterRun` (`present`), `FindLeft` (`pidof`, empty too when the phone is absent), `KillLeft` and `CheckUptime` are one call each. `hidden` is history: the last look at the runners
passed one over that was there. `Die` is a SIGKILL of
the chain: the client and the monitor go on. The next `run` begins when they have ended, because the dead chain's keeper holds the phone until
`END_MIN`, two minutes past the monitor's `RUN_END`. A push that a killed chain leaves running is not modelled (the file stays partial);
`transfer_check` would see it and stop. `NeedsAssumption` is what the header of `npu_chain.sh` asks of a plan and no code checks: a cached leg names its cold leg in `needs=`.

### StreamRunner

A tensor is what it was computed from: `<<turn, k>>` is something of chunk or frame `k` of the utterance of that turn (turn 1 is the warm-up, the
last one the latency phase). `setA` and `setB` are the conformer's two sets of caches: `kv` by slot, `tail` the others, which move on
by whole chunks. `Reads` and `Writes` are the arrays bound per parity of the chunk (`.cc:631-636`); with copied caches set A is always read and
`Conformer` ends with the copy back. A fused graph carries the pre-encoder's caches among them, a split one keeps them in `pre`. `Encode` includes the
mask and, fused, the row masks that are written for chunks 0 and 1 only. The joint may answer anything at each call (`Blank`, `Emit`), so
the loop ends by a blank, the cap or the budget (`Spent`). Every failure of a file or of a locale is `Unreadable`.

### ImageApp

`views`, `running`, `flag` (the pipeline's `cancelled`, or "null" before there is one), `lastPng` are per activity instance; `owner` says which instance a
run belongs to. `posts` is the UI thread's queue. A step of a worker is the stretch between two looks at `cancelled`, a write of a field the
UI thread reads, or the work of one graph. `pipeline` is a plain field set by the worker: until the UI thread has run a post of that
worker (`seen`), a tap may find it null. Taps come from the input channel and may overtake posts. A progress post right behind another
of the same run is one with it. `Save` does not look at what `compress` returns, so a picture's file may be cut short (`Pictured`). `Throw` is an `Exception`; an `Error` passes the
catch and ends the process after the `finally`, and with it everything said here. `asked` and `heard` are history.

### ManifestReaders and Manifest

`TsResolve` and `DartResolve` are translated apart where the code differs (`!x` against `null`, `Infinity` against `1 << 62`) and share a definition where
it does not. `hub` is each repo's commits, each a build per file and a manifest; the
generator takes the list at its start (`StartMaker`: hash and size) and each header when it comes to it, in two requests (`ReadTable`: the section table;
`Describe`: the metadata at the table's place), uploads happening in between, of a new build or of an earlier one put back. Metadata read at the place of another build's table
may parse without the context length (`ContextsRead`), or not at all (`Garbled`: the generator dies). `maker.rest` is what is left to describe, as places in `Listing` (the curated file's variants, then the repo's files by name); so are
the candidates and the recommendations of `resolve` places in their lists, where the code filters: the first of some is `First`, the least place, and the head
of the sorted list is `Best`, the one that is `Before` all others. `StartMaker`'s arguments are the command line: local copies, `--only-curated`, `--no-hub`. What a header says is a function of the
build. A local copy gives identity and header both. An app fetches by repo and revision, resolves, with a revision of its own or none, and downloads, with commits in between;
a revision that is not there is a 404 (`Behind`).
`Plain` names the circumstances under which the readers say the same; `MCManifest` assumes it, so TLC checks that `manifest_read` is an instance of the theorems.

## 3. Runs

| Run | Question | Distinct states | Time |
|---|---|---|---|
| `hold_serial` | does the hold name its user, and implement `PhoneUse`, if acquires do not overlap? | 170 (symmetric) | 1 s |
| `hold_overlap` | what survives free interleaving, force and orphaned tools? | 12,037 | 4 s |
| `line_calm` | order, exclusion and service, if saves do not overlap, beside a driver that comes and goes | 63,980 | 40 s |
| `line_busy` | what survives overlapping saves, and does the line recover? | 768,607 | 160 s |
| `chain_orderly` | the round's exclusion and releases under orderly starts | 27,178 (symmetric) | 4 s |
| `chain_mortal` | what survives keepers' deaths, limits, and a cleanup at any time but in a first moment | 268,792 | 60 s |
| `leg_again` | status, report and end of a leg over two attempts | 776,692 | 65 s |
| `plan_holds` | verdicts, evidence and progress over three holds | 256,885 | 50 s |
| `npu_holds` | caches, room, exclusion, status and end of NPU legs over two runs | 1,296,320 | 130 s |
| `stream_run` | whose frames, tokens and samples a call sees; does the program end? | 203,000 | 10 s |
| `image_app` | graphs, cancels and the screen, over two generations and two activities | 569,248 | 80 s |
| `manifest_read` | do the readers agree, and does a manifest describe what is downloaded? | 1,097,745 | 140 s |

Deadlock is not checked: drivers may all be dead, a round may have had all its commands, a plan all its holds, a runner or an app its work.

### Bounds, and why they are enough

* `hold_serial`: four drivers, interchangeable. `hold_overlap`: three, one of which forces; a third is what a read that is
  stale, a write and a remove in one race need. Both have unbounded behaviours (a driver may acquire and release for ever),
  and the theorems cover any number of drivers.
* `line_*`: two waits, one driver beside the line that may take the phone again and again (in `line_calm` it may die), one command by hand, and (in `line_calm`) an entry found in the line
  that nobody polls for. A wait polls without bound; each stands in line once. Two suffice for every pair of saves;
  three waits multiply the states past what a run can afford.
* `chain_orderly`: three commands: one to leave something behind, one to meet it, one (a cleanup) to follow. `chain_mortal`: two.
* `leg_again`: two attempts; the second has all the leftovers a first can produce, and a third would find no other kind.
* `plan_holds`: three lines (a gate leg, a once-only leg that needs its PASS, a leg prepared from it) and three holds, so that a
  verdict given in one hold is used in the next and a report made then is looked at in the third.
* `npu_holds`: three legs are the shortest plan in which a cached leg needs what a cold leg wrote while a leg on another graph stands between them;
  four files of size 1 and room for three make the short-`/data` path happen in that middle leg, and the cached leg then finds its
  cache evicted, or not, by what failed before. Two runs: one to leave files, one to meet them.

* `stream_run`: two utterances, after a warm-up on the first, so that every turn follows one with an even and one with an odd number of chunks; lengths that give 1, 2
  and more chunks than the window has slots, and none; a window of 3 frames over chunks of 2, so that a window is
  neither filled nor moved by whole chunks; the geometry keeps the ratios the graphs have (overlapping frames, a first chunk of its own).
* `image_app`: two runs make every handover of `running`, of the flag and of the pipeline; two instances, with runs on both; two DiT steps: a cancel before, in and
  after the first.
* `manifest_read`: two files, two builds, four commits: a manifest, one upload before and one after it and one while it is made, each of the new build or of the old one. By hand: every
  pair of recommendations from five, over three backend lists, against nine second variants. A request names no revision, `main`, the first commit, or one that is not there.

### Fairness, and why the code justifies it

* `DeviceHold`: a running Python call finishes (`WF` of its steps); a driver without the phone asks again while there is no hold file, or an
  unowned one (`SF` of `Retry`: `queue_cli.py` polls every 2 s and calls `acquire` then, line 142, and only then). Nobody is obliged to release.
* `WaitingLine`: a process in the middle of a save goes on (`WF`); a wait's own steps are `SF` because a load has to wait for
  others' changes in the runs in which changes do not overlap; holders let go (the keeper's limit), and a driver beside the line ends its acquire and gives the phone back
  (`WF`). Nothing stops such a driver from coming back for ever, so `EveryWaitServed` has `OthersLeave` for its hypothesis.
* `ChainHold`: commands, keepers and what a killed command leaves behind go on. The person, other lanes and the phone owe nothing.
* `Leg`: `run.sh`, the monitor and `leg` go on; `run.sh`'s waits end by its own limit. The app owes nothing.
* `NpuChain`: the chain goes on, the monitor sees the run end, kills and notices the client's end, time passes. The runner may hang, the guard and
  the compile watch need not fire, the phone may stay away.
* `StreamRunner`: one thread whose graph calls return (`WF` of `Next`). Nothing is assumed of what the joint answers.
* `ImageApp`: threads go on and posts are run (`WF`). The person owes no tap, Android no replacement.
* `LegPlan`: the chain goes on, time passes, scorers end. The person owes no `RESUME`.

## 4. Statements of the repository the code does not keep

These are properties of the modules that no configuration lists. Each fails when it is put into the configuration named here,
with the changes given; TLC then gives the steps.

| Property | Configuration and changes | What happens | Statement |
|---|---|---|---|
| `WaitingLine!StaleHoldCleared` | `line_calm` | `wait` (`queue_cli.py:142`) calls `acquire` only when there is no hold file at all: a dead holder's hold stops every wait until its timeout | `keeper.sh:8` "(a dead holder's stale hold is cleared by device_hold.acquire itself)" |
| `ChainHold!UnderHold` | `chain_orderly`, `KeepersMortal = TRUE` | `take_hold` (`lib.sh:426`) removes the other files but leaves `HOLD_ACQUIRED` of a killed keeper to the new one (`keeper.sh:19`); a chain that polls first (`lib.sh:434`) goes on with no hold | `device_hold.py:4` "takes the hold before its first adb call" |
| `NpuChain!GraphChecked` | `npu_holds` | `stage_graph` compares the hash only to size the room (187); whether it pushes is decided by the file's existence (198). `push_file`'s `hard_stop` ends the subshell of line 268 before the `rm`, and the caller goes on if the phone is back by 269; a chain killed in a push leaves the same | `npu_chain.sh:182` "the graph on the phone with its sha256 checked" |
| `WaitingLine!NobodyPassesForEver` | `line_calm` | a driver beside the line that takes the phone again right after each release is always earlier than the wait's next look: the line keeps an order among those in it only | `queue_cli.py:4-5` "instead of racing for the phone at each release" |
| `WaitingLine!PhoneShared` | `line_calm`, `Overlap = TRUE`, without `MCWaitingLine!CalmAssumption` | a driver beside the line and a wait both read a free hold and both write | `device_hold.py:13-14` "`acquire` refuses while a live process other than the caller holds the phone" |
| `ChainHold!DoneMeansTried` | `chain_orderly`, `Timely = FALSE` | at the keeper's limit `HOLD_ACQUIRED` is removed; `run.sh cleanup` exits 4 and `cleanup_all` looks for 9 only: `CHAIN_DONE` with the app installed | `chain.sh:47-48` "cleanup (force-stop, uninstall, the stage dir removed, checked)" |
| `ChainHold!UnderHold` | `chain_orderly`, `Timely = FALSE`, or `Rule = "one"` | the keeper's limit passes, or an earlier keeper still ends, while the command works | `device_hold.py:4` "takes the hold before its first adb call" |
| `ChainHold!ReleasedMeansFree` | `chain_orderly`, `Rule = "one"` | an earlier keeper, still ending, writes `HOLD_RELEASED` after the next command has removed the old one, which takes it for its own keeper's | `lib.sh:407-409`, "keeper released the hold" |
| `ChainHold!OneAtWork` | `chain_mortal`, `Rule = "any"` | two cleanups read `chain.pid` before either writes it, or one looks before a run has written it (`chain.sh:488`): both go on | `lib.sh:446` "never while a chain of this round runs" |
| `ChainHold!NobodyBeside` | `chain_mortal` | a killed chain's `run.sh gate` and monitor are still at the leg when a cleanup comes: it looks at the chain's pid only | the same |
| `Leg!DoneIsOwn` | `leg_again` | the phone is away for the `rm` of the old report (`run.sh:42`, rc ignored) and back for the rest: the poll finds an earlier attempt's report and the leg is DONE; so too when `run.sh` refuses (24) and an old `R/<tag>.json` is there | `run.sh:42`, the removal of the tag's old report before its start |
| `Leg!FgFailIsSeen` | `leg_again` | the app dies between `pidof` (`chain.sh:188`) and the reads of 192-193, which find nothing: FG_FAIL of an app that was never behind | `chain.sh:181-182` "it died or never started: not a foreground loss" |
| `Leg!FgFailIsOwn` | `leg_again` | nothing removes `R/<tag>.FG_FAIL`: a tag that lost the foreground once is FG_FAIL in every later hold | `chain.sh:327` "a leg whose app could not stay in front" |
| `NpuChain!Alone` | `npu_holds` | the phone is away for the `ps` of `transfer_check` (`lib.sh:369`) or for `npu_chain.sh:298`, and back after it: the list is empty, reads as no runner, and a leg is staged and started beside the runner of another | `devicebench/README.md:118` "a `*runner` process … means no leg: release" |
| `NpuChain!AnyChainEnds` | `npu_holds` | after that the monitor of the second leg kills the first pid that `pidof` gives (`npu_chain.sh:210-224`), which may be the runner passed over, and does so once: its own leg's runner hangs on, and so does the chain | `npu_chain.sh:221`, the run end |
| `DeviceHold!MutualExclusion` | `hold_serial`, `Overlap = TRUE` | two acquires read a free phone and both write | `device_hold.py:13-14` "`acquire` refuses while a live process other than the caller holds the phone" |
| `DeviceHold!RemovesOnlyOwn` | the same | a release that has read its own hold removes the one written since | `device_hold.py:14-15` "never removes another driver's hold" |
| `WaitingLine!OneHolder` | `line_calm`, `Interleaved = TRUE` | a lost entry lets two waits see their turn | `queue_cli.py:4-5` "instead of racing for the phone at each release" |
| `WaitingLine!OneHolder` | `line_calm`, `InitLines <- OwnEntry`, without `MCWaitingLine!CalmAssumption` | a keeper arrives at its old entry after the wait behind has passed it; both acquire, no save overlapping | the same |
| `WaitingLine!OnlyOwnRemoval` | `line_busy` | an older copy is saved over another's entry | `queue_cli.py:14-17` "No entry is ever removed by another user of the line except through `front`" |
| `ChainHold!DoneMeansTried` | `chain_orderly`, `Rule = "one"` | a keeper that is still ending removes the `HOLD_ACQUIRED` of the next command | `README.md:121` "Cleanup: force-stop, uninstall, the stage dir removed and read back" |
| `ChainHold!DoneMeansClean` | `chain_orderly` | `uninstall` or `rm` fails (`run.sh:117-118`, rc ignored), or the phone leaves inside the cleanup; the read-back (`chain.sh:349-352`) is written down and not judged | `chain.sh:47-48` "removed, checked" |
| `ChainHold!RemovesUnderHold` | `chain_orderly` | `cleanup_cmd` ignores `cleanup_all`'s 9, releases, and its exit trap cleans with no hold | `device_hold.py:4` "gives it back at the end" |
| `Leg!CheckIsOfThisStart` | `leg_again` | the monitor judges the foreground by an earlier attempt's `running.txt` | `README.md:194` "judges a live process only" |
| `LegPlan!OncePerRound` | `plan_holds` | a `once=1` leg that loses the foreground runs again as `<tag>_r2` | `chain.sh:29` "one attempt per round dir, whatever its result" |
| `LegPlan!DoneNotRepeated` | `plan_holds` | a leg whose second try was DONE is run again in the next hold | `README.md:63` "A leg whose report already says DONE is skipped" |
| `StreamRunner!LatencyKeepsState` | `stream_run` | with copied caches the timed copy overwrites the conformer's inputs with its last outputs (`.cc:889`); harmless, the program ends there | `nemotron_stream_runner.cc:847` "no call moves the state on (the caches stay chunk c's inputs)" |
| `ImageApp!AskedMeansStop` | `image_app` | a tap before the worker has made the pipeline goes nowhere, one before `BonsaiPipeline.kt:152` is cleared there; the run goes on under "Cancelling after this step…" | `MainActivity.kt:201`; `BonsaiApp/README.md:17` "cancel that stops after the current DiT step" |
| `ImageApp!ButtonIsTrue` | `image_app` | `running` is given back (257) before the post that resets the button (258): a tap in between starts a run, whose button that post then names "Generate" though it cancels | `MainActivity.kt:134`: the button is what `running` says |
| `ImageApp!OneGraphInAll` | `image_app` | the activity is replaced (a rotation) under a generation; with the autorun intent, or a tap, the new one opens a second pipeline | `BonsaiPipeline.kt:18-19` "loaded sequentially and closed between stages" |
| `ImageApp!SharedIsWhole` | `image_app` | on a full disk `compress` returns false (`MainActivity.kt:244`), nobody looks, and the cut file is `lastPng`: Share is offered and sends it | `BonsaiAppAndroid/README.md:11` "share via the system sheet" |
| `Manifest!AnyVerifiedIsDescribed` | `manifest_read` | the listed build's header is read after the next build's upload; then the listed build is put back, or the request overrides the revision with the commit it was in: the hash is right and the context length another build's | `SCHEMA.md:147` "verify after download"; `readers/README.md:67`, the override |
| `Manifest!FirstIsDefault` | `manifest_read` | both readers take the smallest variant | `src/manifest/make_manifest.py:382` "its first = the default the reader takes", `SCHEMA.md:141` |
| `Manifest!ContextIsTheFiles` | `manifest_read` | a resolution's `contextLength` is the model's, that is, the first variant's, whichever file it names | `src/manifest/SCHEMA.md:148` "files of one model can differ only in the KV length" |
| `Manifest!ReadersAgree` | `manifest_read`, `Shift62 = 0`, without `MCManifest!PlainAssumption` | compiled to JavaScript, `1 << 62` is 0 and a variant with no size is the smallest | `litertlm_manifest.dart:214-215` "identical to the TypeScript reference" |
| `Manifest!ReadersAgree` | `manifest_read`, `Blank` added to `Classes`, without `MCManifest!PlainAssumption` | an empty device class is none in TypeScript (`index.ts:222-223`) and a class in Dart (`:254-264`) | the same |
| `LegPlan!DoneIsScored` | `plan_holds` | a chain that dies between the pulled report and `score_leg` leaves a DONE leg that no later hold scores | `chain.sh:45-46` "the lane's host scorer of a DONE leg" |

## 5. Proofs

The theorems hold for every value of the constants that meets the modules' assumptions; the runs check the same
properties on small instances.

`ChainHold_proofs`, its part about `DeviceHold`
* `HoldTypes`, `NoHoldLeaks`: unconditional: any interleaving, force, deaths, orphaned tools. The invariant is
  `LeakInv == TypeOK /\ NoLeakedHold`: `NoLeakedHold` is inductive with the types, because the only step that makes the file name a
  live process is that process's own `Write`, and the only steps that take a process out of acquire and release leave
  the file naming somebody else or nobody.
* `DisciplinedUse` (`MutualExclusion`, `UserIsNamed`), `DisciplinedRelease` (`RemovesOnlyOwn`), `HoldImplementsUse` (`ImplementsPhoneUse`): under
  `Disciplined == ~Overlap /\ ~Orphans /\ Forcers = {}`. Exclusion alone is not inductive: `ExclusiveInv` adds that at most one owner is
  in acquire, that one past its check (`open`) cannot be facing another live owner's hold, that the file it has
  emptied is still at the path, and that a user's and a releaser's name is in the file. With it, a `Write` is `PhoneUse!Begin`, a
  `CallRelease` or a death is `End`, and every other step is a stutter.

`WaitingLine_proofs` (under `LineAssumption` and `NamesAssumption`: any number of waits, commands by hand and entries)
* `LineIsSound` (`TypeOK`) is unconditional: every interleaving of saves, every death. The types alone are not inductive, for a copy being saved may
  be older than the line: `TypeInv` adds that each process's `local` is `Sound`, and the lemmas `MarkedKeeps`, `WithoutKeeps`, `FrontedKeeps` say that the three edits keep a sound list sound.
* Under `Calm`: `OneKeeperHolds` (`OneHolder`), `TurnsAreKept` (`TurnOrder`, an action property) and `LineSharesPhone` (every step is one of `PhoneUse`'s or a
  stutter, `PhoneShared`, with any number of drivers beside the line among the users, who may take the phone at any time that nobody is between read and write). `LineInv` has five parts: `OwnPhases`, `ChangeInv` (one change at a time; its tmp is what was copied, and what was copied is the line as it
  still is but for one script's entry), `StandInv` (a wait stands in line with its pid from its first mark until its own dequeue, and no pid is in another's entry),
  `AheadInv` (a live wait ahead of another is so also in the copy the other looks at, and nobody live is ahead of one that acquires) and `HoldInv` (one process at a time is about to write the hold, which is then no live one's; and the file names whoever has the phone). Two acquiring waits both stand
  in the line, so one is ahead of the other (`EitherAhead`), against `AheadInv`. The heart is `Keeps(q, r, s, waiter)`: how `r` comes from `q` by an edit for `s`, as a map from the places
  of `r` to those of `q` that keeps the order of everybody else's entries; all three edits have this form.
* What the edits do to a list of any length is proved by induction over its places. `Induction` states it for a set of naturals (a set is a value, so a leaf can be given
  one), from `Least`, from the well-foundedness of finite subsets; `PickedMaps` is what the induction is for.
* Each part of `Calm` is needed: section 4 has `OneHolder` fail when changes interleave and when a wait's entry is in the line before it. A command by hand on a waiter's entry moves or
  removes it between its look and its acquire; two waits under one name share one entry; an entry without a `waiter` key may be moved ahead of a wait that has looked.

`ChainHold_proofs`, its part about `ChainHold`
* `RoundTypes` (`TypeOK`): unconditional. `AloneAtWork` (`OneAtWork`): whenever `Rule # "any"`, that is, if no command starts in another's first moment. It rests on
  `chain.pid` alone: `LiveIsNamed` says that every command past its first moment is the one `chain.pid` names, and a cleanup that has read another's pid finds it alive.
* Under `Kept == Rule = "last" /\ Timely /\ ~KeepersMortal`: `UsedUnderHold` (`UnderHold`), `ReleaseIsTrue` (`ReleasedMeansFree`, an action property) and `SharedPhone` (the module's `PhoneShared`, which no run checks: a change that breaks it breaks `UnderHold` first). The inductive
  invariant has four parts besides the types: `PidsName` (the pid files name whoever is alive), `HoldSays` (what the hold file, `HOLD_ACQUIRED` and `HOLD_RELEASED` say of
  the keepers' places), `InStep` (how far the keeper can be while a command is at each of its places; what a cleanup has `seen` is still so) and `LeftAlone` (nobody is beside what a killed
  command left). Without `InStep` a `HOLD_ACQUIRED` could be that of a keeper about to end.

`Kept` is what the documentation asks of the person, not what the code enforces: section 4 has what happens without each part of it
(without the keepers' survival, without the time and without the wait for the keeper). Nothing is proved of what a command that ends well has removed: nothing can be (`DoneMeansClean`, `DoneMeansTried`).

`NpuChain_proofs` (under the module's own `PlanAssumption` and `NeedsAssumption`: a cached line's `needs=` is the one cold leg that writes its cache;
any plan, any sizes, any number of runs, with the phone leaving, rebooting and returning and the chain killed at any step)
* `LegTypes` (`TypeOK`), `CacheIsWhole` (`CachedOnWhole`), `GraphIsThere` (`GraphStays`), `OneRunner` (`AloneOnPhone`), `NoLegTwice` (`StartedOnce`, an
  action property from the same invariant and the lemma `NewRunner`). `OneRunner`, `GraphIsThere` and `RoomIsKept` are about states with
  `~hidden`, in which the last look passed no runner over: all a chain can know of the runners is what a look finds, and section 4 has what becomes of a leg beside one that was missed. The
  others hold whatever is on the phone. `CachedOnWhole` is not inductive: that a cache is on the phone when its
  leg starts says nothing of whether it is whole. `DoneSaid` (a DONE leg said that its compile ended) and `WrittenWhole` (after that its cache is never
  partial again, only whole or gone) say so, and `StillFit` carries what `run_leg` asked before the staging (`out` empty, needs DONE, the cache
  and the graph there) through the eviction, the push and the gate to the runner's start; `Begun` keeps it while the runner is up, and `CacheStays` that nothing removes the cache under a runner that was not passed over; that the eviction made for a leg keeps the leg's own cache is the
  lemma `OwnKept`. `InPlan` keeps a leg under way inside the plan.
* `CachedOnWhole` needs no check of a hash: the statement about graphs that does (`GraphChecked`) is refuted (section 4), since
  a graph, unlike a cache, has no `leg.json` that says its writing ended.
* `RoomIsKept` (`KeepsToRoom`): `RoomInv` adds `RoomKept` (from the push to the gate, what is on the stage and the cache a cold leg's runner will add fit in the room that `stage_graph`
  counted), `CacheGrows` (the cache file of a cold leg's runner is there from its start, so its end adds no file), and `Counted` (finite sets of files; there may be any number of names). An eviction only removes files: `FewerFiles`.
* `StatusIsTrue` (`StatusTrue`, an action property), whatever else is on the phone: `DoneIsOwn` (a leg's "done" line is of its own runner, which is gone and has ended by itself), `Single` (a leg has one runner at most, whoever else's
  are there) and `ClientGone` (a client that has ended says nothing more).

`StreamRunner_proofs` (under the module's `ConstantsAssumption`: what the program asks of graphs and options before the first chunk)
* `StreamTypes` (`TypeOK`), `WindowIsOwn` (`WindowIsItsOwn`), `DecoderIsOwn` (`DecoderIsItsOwn`), `NeverCut` (`CapSuffices`): any chunk size, window, number
  and lengths of utterances, options. `StreamInv` adds what the next chunk will read (`NextReads`): after a chunk of either parity it is what that chunk wrote, by the
  copy or by the turn of the sets; `WindowMoves` is the arithmetic of a window moved by a chunk that need not divide it. `DecoderInv` adds how many steps the frames so far
  can have cost (`BudgetSuffices`: the cap allows `maxSymbols` tokens and one blank a frame, the budget is above that by `Slack`).
* `HeardWhole` (`WholeUtterance`) also assumes `MelGeometry`: half windows are whole numbers of samples, a window is no shorter than
  two hops and no longer than the FFT, the FFT no longer than a hop and a window. The program's options (160, 512, 400) meet it and nothing there checks it. The proof is about
  slices only: `SliceHolds` (a chunk has the samples of its frames), `FramesInARow`, and that the chunks before `k` hear every sample before the one `k` starts with.

`LegPlan_proofs` (under the module's `PlanAssumption`: any plan, any number of holds, chains killed at every step with
their scorers or without)
* `PlanTypes` (`TypeOK`), `VerdictsAreCurrent` (`VerdictIsCurrent`), `LegsStartOnEvidence` (`StartedOnEvidence`). That a verdict is about the report that is there
  is not inductive: a second start of the tag would make it stale. `Place` says that a line is started under its own name only while its report is not
  DONE, `ScoredOnce` that every start is scored once at most and only a finished scorer has a verdict. `OncePerHold` bounds the starts by the holds (the
  types need it): it is about the tags the walk still has `Ahead`. `MarkedOnce` is the mark of a `once=1` line, which is written before the start.

`Leg_proofs` (under `TriesAssumption`, and `NoneAssumption`: the value for "no file" is not a place of the app; any number of tries)
* `LegTypes` (`TypeOK`), `StatusIsExplained` (`StatusExplained`, an action property): DONE and FAILED are the report of this try's app, which the monitor never saw behind another, unless the
  try is `unsure`; LMKD_KILLED only if lmkd has killed the tag's app. The invariant adds `OwnReport` (in a try that is not unsure, a `run.sh` that has cleared the phone finds there only what its own start made, and so has it
  pulled), `BehindIsMarked` (the monitor that saw the app behind has left FG_FAIL, which is asked before the report) and `Attempted` (nothing runs before the first try). Without `unsure` it does not hold: section 4, `DoneIsOwn`.

`ImageApp_proofs` (under `ConstantsAssumption`: any number of generations, activities and steps)
* `ScreenTypes` (`TypeOK`), `OneGraphPerScreen` (`OneGraphAtATime`), `RestIsTrue` (`ScreenAtRestIsTrue`), `CancelsAreOwn` (`CancelIsItsOwn`, an action
  property). `RunningIsAtWork` ties `running` of an activity to its last run, which is the only one of that activity at work. `FlagIsItsOwn`: a set flag a run
  will still look at was set by a tap on its own Cancel, because a run clears it before its first look. For a screen at rest,
  `ShownIsUnderWay` and `LastIsShown` say of each thing shown which thread or which post in the queue will correct it, and `ShownIsSaved` with `NewestComesLast` that of the
  pictures still queued the newest comes last. The lemmas `Posted` and `Taken` say what an append and a removal do to the queue.

`Manifest_proofs` (under `SizesAssumption`, `ManifestAssumption`: what is written by hand is well formed and right about the bundles, and a curated file
names each file once; and `AbsentAssumption`: what is absent is nothing else. Any files, builds' contents, curated files, hand-written manifests, requests and number of commits)
* `ManifestTypes` (`TypeOK`), `VerifiedIsDescribed` (`VerifiedMeansDescribed`), `PinnedIsDescribed` (`PinnedGetsDescribed`) hold whatever the device classes are
  and however Dart is compiled. That a verified download is the one described is not inductive and is not true of a manifest alone: its hash may be of the build listed
  and its context length of the one whose header was read. `Honest` is what is true of it: it describes its file truly, or its hash is of a build gone by,
  the repo having the newest already. The statement has two conditions the code does not see to: `NothingPutBack` (an earlier build is not uploaded again) and `AskedNoOlder` (a request does not
  override the revision with one before the manifest's); section 4 has it fail without each. `HubInv` says what of a commit is honest as long as nothing was put back: the newest build stays once it is there, so no later commit
  has the wrong hash. `MakerInv`: what is left to describe is local, or as listed and still on the Hub (`Listed`), the table read of it is not older than the list (`Tabled`), and no file is left twice; `AppFrom(k)` says which commit `k` the app's
  manifest is of, and that its download is of `k` or a later one if the request asks for none older.
* `ReadersSayTheSame` (`ReadersAgree`), `RulesAreKept` (`KeepsToRules`): under `Plain`. Section 4 has `ReadersAgree` fail without either half of it. The two scores are compared
  recommendation by recommendation (`TsClass` and `DartClass`, `TsFree` and `DartFree`: the same places when no class is empty). `BestCandidate` says that what the sort puts at the head is
  before all others, from `LeastValue` by score, then size, then place; `RankFacts` and `MostSpecific` tie the score 300, 200 or 0 and the backend to the
  README's words. `PlainInv` carries `Plain` through curated file, generator, uploads, forks and fetch. All invariants were checked with TLC on `manifest_read` before their proofs.

Model-checked only: all liveness (`DeadNeverBlock`, `EveryWaitServed`, `LineHeals`, `RoundEnds`, `LegEnds`, `WalkEnds`, `ChainEnds`, `RunEnds`, `ButtonComesBack`), which the
prover cannot do. Every safety invariant the runs check is a theorem. Induction with an
operator as parameter is out of the prover's reach; where a statement about a recursive function can be said of a set, `WaitingLine_proofs!Induction` does.

## 6. Not modelled, and why

* Transfers, the ready gate, `prep_leg`'s sending, `pool_parts.py`, `verify_lock.py`: planned (section 7).
* Two `run`s of one round dir at once: `run_chain` does not look at `chain.pid`, and they overwrite each other's pid files. `Rule` starts
  one at a time.
* An entry without a `waiter` key (an older version's) stops the entries behind it until a person removes it, as documented; `KeeperWaiting` has
  it, no run's line starts with one.
* `phone_state`, the GPU and cooling reads, `ps` and memory lines, wording of logs: they decide nothing.
* Conversion (`convert.py`, the lanes' conversion scripts), the CLI package, catalogue tools: one process, sequential, their substance is data. They are most of
  the repository's lines: what they compute is compared with references by their own scripts, not by a model of their steps.
* An `Error` in the image app (no memory, for one): it ends the process.
* The manifest generator's header parsing past its two requests, capabilities and derivation of the thinking control from a template: text and bytes.
* The image app on iOS, the other demo apps and runners: the same shape as the ones modelled, one per model; the runners other than the streaming
  one keep no state between utterances but a model's weights.
* The runner's graphs: what they compute; `StreamRunner` has where their inputs come from.

## 7. Plan

Done: `PhoneUse`, `DeviceHold`, `WaitingLine`, `ChainHold`, `Leg`, `LegPlan`, `NpuChain`, `StreamRunner`, `ImageApp`, `ManifestReaders`, `Manifest`; proofs of all of them.
Next, in this order:

1. `Transfers` (`chain.sh:106-170`): `exec-in` and the polled byte count, hash, removal of the graph before, a subshell's exit against the
   caller's view; that the graph a leg runs is the one its plan names;
2. `ReadyGate` (`lib.sh:250-285`): cool, hot and unread sensors against `REST_MAX`, and the skip;
3. `PoolParts` and the lock's comparison as operators against reference definitions over small inputs;
4. `ChainHold` with two `run`s at once, and with `WaitingLine`'s line in place of its abstraction.
