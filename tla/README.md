# Formal models of the note editor and of CTranslate2

The repository holds two programs:

* a **note editor**: a Next.js application (`apps/web`), a Convex backend
  (`convex`) and a chat agent (`note-agent`) that share a table of notes;
* **CTranslate2** (`CTranslate2`): a C++ inference engine with Python bindings,
  which runs batches of sequences on a pool of worker threads.

This directory models the parts of both in which the order of events matters:
threads, condition variables, queues, locks, promises, time-outs, saves that
are late or lost, drafts that outlive a browser tab, hypotheses that leave a
batch. TLC checks small instances; theorems proved with TLAPS say what holds for
every instance.

## Inventory

### CTranslate2

| part | state | operations | what is hard | what makes it correct |
|---|---|---|---|---|
| Thread pool (`src/thread_pool.cc`) | queue, end flag, mutex, two condition variables, atomic job counter | `post`, `JobQueue::put/get/close`, `Worker::run`, `~ThreadPool` | notifications sent after unlock with `notify_one`, spurious wakeups, destruction while jobs wait | every job is run once and in order; nobody sleeps over work or room; the queue is bounded; the counter is exact; the destructor returns and leaves nothing |
| Replica pool (`include/ctranslate2/replica_pool.h`) | one replica per worker, promises of a batch | `post_batch`, `post_examples`, `consume_batches`, `BatchJob::run`, `detach_models`, `set_models` | batches finish in any order, fail, or find no replica | every promise is set; results keep the order of the input |
| Model lifecycle (`python/cpp/replica_pool.h`, `translator.cc`) | loaded flag, CPU copies, shared mutex | `unload_model`, `load_model`, computing methods | callers in several threads, calls of several batches, asynchronous calls that keep no lock, exceptions half-way | no replica disappears under a call that waits; the flag tells which replicas there are |
| Batching (`src/batch_reader.cc`) | the example read ahead | `get_next`, the parallel reader, `rebatch_input`, `load_examples` | boundaries of batch sizes, streams of different length | nothing is lost or repeated; batches are as full as allowed |
| Buffered translation (`src/buffered_translation_wrapper.cc`) | buffer of examples and promises, stop flag | `translate_async`, `buffer_loop`, destructor | condition variable with time-out, partial flushes, destruction while batches wait | each future gets its own result; nothing stays in the buffer |
| Decoding (`src/decoding.cc`, `src/models/language_model.cc`) | beams, scores, alive sequences, decoder state, entries of the batch that go on | greedy and beam search, prefixes, `finalize_result` | parallel arrays reordered and compacted in every step, early exit, boundaries of lengths | the arrays stay aligned; an entry is decoded as if it were alone; the hypotheses are those asked for |
| Streaming (`python/ctranslate2/extensions.py`) | queue of tokens, closed flag, queue of the asynchronous generator | `_generate_tokens`, `_catch_exception`, `AsyncGenerator` | callbacks in workers, a thread that waits for the results, an event loop, a user who leaves | the stream is complete and in order; closing it stops the work; nobody waits for ever |
| Layers, operators, storage, devices, vocabularies, converters | tensors, tables | numerical code | | not modelled, see below |

The Python methods post batches to the replica pool, which wraps each in a job
of the thread pool; file methods read with a batch reader and go through
`consume_batches`; the buffered wrapper goes through `post_examples`. All of
them meet in the thread pool, so that one was modelled first. In a worker, a
replica of a language model calls `decode`, and the callback of greedy search
leads back to Python.

### Note editor

| part | state | operations | what is hard | what makes it correct |
|---|---|---|---|---|
| Note store (`convex/notes.ts`) | notes with `contentVersion`, chat threads | `saveNote`, `updateNote`, `deleteNote`, queries | clients with and without versions, lost replies and retries | versions identify contents; a versioned update replaces what its sender saw, once |
| Markdown preview (`renderMarkdownToHtml` in `note-editor.tsx`) | lines, index, open code block, blocks | one iteration of the loop over lines | rules that test a line in two ways, inner loops that move the same index | every line is shown once, or is one of a code block without an end; the loop ends |
| Editor dialog (`components/editor/note-editor.tsx`) | text, sync status, timer; draft in localStorage | load effect, autosave effect, save button | effects that race with saves, a load that reaches the dialog a render later, answers out of order, reloads | nothing typed is lost; a change is drafted; the text is saved or reported |
| Inline editor and page (`note-editor-inline.tsx`, `page.tsx`) | text, list of notes | effect on the note, `handleSaveNote` | a refetch while the user types | not modelled, see below |
| Agent proxy and chat (`app/api/agent/notes/route.ts`, `page.tsx`) | map of sessions; messages of the chat | `POST`, fallback, `handleSendMessage` | concurrent requests, time-outs, late answers | the agent gets a message once; every message is answered |
| Note agent, files, UI components | | stateless requests, rendering | | not modelled |

## Modules

| module | models | notes |
|---|---|---|
| `JobPool` | what the thread pool promises | abstract: a bounded first-in first-out buffer, workers, `Close`, `Destroy` |
| `ThreadPool` | `thread_pool.cc` | one action per critical section and per step outside of one; implements `JobPool` |
| `ReplicaLifecycle` | `python/cpp/replica_pool.h`, `translate_batch`, `BatchJob::run` | composes `JobPool` |
| `Batching` | the pure part of `batch_reader.cc` | operators only |
| `BatchReader` | `BatchReader::get_next` over a `ParallelBatchReader` | extends `Batching` |
| `FileTranslation` | `consume_batches`, `post_examples` | extends `BatchReader`, composes `JobPool` |
| `BufferedTranslation` | `buffered_translation_wrapper.cc` | composes `Batching` and `JobPool` |
| `Search`, `BeamSearch`, `GreedySearch` | `decoding.cc`, the logits processors of `decoding_utils.cc` | operators: one turn of the loop of each search |
| `DecodingLoop` | one call of `decode` | operators: the strategy, the start, the limit of the steps |
| `Decoding` | `decode` as `run_generation` calls it | the call of a batch next to the call of one of its entries alone: an instance of `DecodingLoop` for each |
| `TokenStream` | `_generate_tokens`, `AsyncGenerator` of `extensions.py` | workers, waiting thread, generator, user |
| `NoteStore` | `convex/notes.ts` and its clients | |
| `NoteEditor` | the dialog of `note-editor.tsx` | |
| `MarkdownPreview` | `renderMarkdownToHtml` of `note-editor.tsx` | one action per kind of iteration |
| `AgentProxy` | the chat of `page.tsx` and `api/agent/notes/route.ts` | the eve agent is external |
| `*Proofs` | | the theorems about the module they are named after |
| `WebAppProofs` | | the theorems about `NoteStore`, `NoteEditor`, `MarkdownPreview` and `AgentProxy` |
| `MC*` | | inputs of the instances for TLC, where a configuration cannot state them |

`BatchReader`, `NoteEditor`, `MarkdownPreview` and `AgentProxy` call their
specification `ReaderSpec`, `EditorSpec`, `PreviewSpec` and `ChatSpec` (likewise
their `Init` and `Next`): a module that extends them together has one of each.

The composed modules use `JobPool` in place of `ThreadPool`. This is sound for
what they check: `ThreadPool` implements `JobPool` with its fairness
(`ImplementsJobPool`, checked) and, for any size, its safety (`Refinement`,
proved). `PROJECT.json` maps every definition to the lines it stands for.

Each module also defines *faulty variants*: an action or operator with one
plausible bug in it. They are never used by a specification; each shows that a
property would notice that bug if the code had it.

### How state and actions correspond to the code

* **ThreadPool.** `queue`, `requestEnd` and `active` are the fields of the same
  meaning. `pc` says where each client (a thread in `post`) and each worker is;
  `hand` is the job its `unique_ptr` owns. `PutWait`, `PutJob`, `GetWait`,
  `GetJob`, `GetNull` are the critical sections of `put` and `get`;
  `NotifyGet` and `NotifyPut` the `notify_one` calls after the unlock;
  `ReleaseJob` is `~Job`. A thread in a wait set (`waitPut`, `waitGet`) leaves
  it by a notification or a spurious wakeup and then tests its predicate again.
  `owner` is the thread in `~ThreadPool`: `Close`, `NotifyAll`, `JoinAll`. It
  starts when no client is in `post`, as a destructor requires.
* **ReplicaLifecycle.** `readers` and `writer` are the shared mutex; `loaded`
  and `cached` the flag and the copies in CPU memory; `replica[w]` whether
  worker w has its replica; `outcome[j]` what the promises of batch j were set
  to. A call has up to `MaxBatches` batches, posted one after the other (`Post`,
  `Put`) and awaited in their order: `Await` leaves at the first exception
  (`wait_on_futures`) and gives up the shared lock, while other batches of the call
  may be queued or run. A computation may throw. `load_model` sets one replica after
  the other (`SetModel`) and may fail in between (`SetModelFails`), as the copy to
  the CPU in `unload_model` may (`CloneFails`); `halfway` remembers it. A worker
  whose replica is destroyed while it computes is at the stage `dangling`; what it
  does next is `fault = "useAfterFree"`, after which nothing is claimed.
  `SyncBatchSucceeds` says that this does not happen to a batch of a call that
  holds the lock.
* **Batching, BatchReader, FileTranslation.** A stream is the sequence of the
  lengths of its lines, since nothing else of a line decides how it is batched;
  a line's number stands for its text, its promise and its translation.
  `std::sort` is not stable: every sorted order is considered. `chunk` holds
  the batches of the last `get_next` still to be posted; `answer` the promises;
  `pending` the queue of futures.
* **BufferedTranslation.** `loop` is where the background thread is; `Timeout`
  ends its wait and leaves it to take the mutex, so that requests may still be
  added before it flushes. A batch begins with a copy of the options of the wrapper
  (`CopyOptions`); when the wrapper is destroyed, `fault` is set, after which no
  answer is claimed.
* **Search, BeamSearch, GreedySearch, Decoding.** A score is kept as its cost, the
  negated log probability, and what the decoder returns is `Cost(memory, words
  read, word)`: the state of a row is the words it has read and the memory it
  attends to, which is all a property needs to notice that two rows were mixed
  up. `ids`, `scores`, `alive`, `offset` and `topDone` are `topk_ids`,
  `topk_scores`, `alive_seq`, `batch_offset` and `top_beam_finished`; `cache` and
  `memory` stand for the decoder state, which `replicate_state` and `update_state`
  reorder. `-1e10` and `lowest()` are two large costs which absorb what is added
  to them. The logits processors act on the costs of a row: `DisabledWords` collects
  the minimum length, suppressed words, banned sequences and repeated n-grams, and
  the repetition penalty is an amount added to the cost. The costs of the words that
  are left keep their value: the softmax would shift all those of a row by one
  amount, and a cost is an arbitrary function of what the row has read anyway. A
  length penalty decides the order of the hypotheses and is not stored in their
  cost. `alone` is the search of another call, one that has only the entry `entry`:
  `Own` is the loop with that call (`OwnCall`), so that whatever `decode` works out
  from all prompts of a batch (the tokens forwarded at once, whether there is a
  prefix, the limit of the steps) is worked out from the one prompt. A step of
  the loop is one action: a search is one thread.
* **TokenStream.** `queue` is `step_results`, `closed` is `generator_closed`,
  `catcher` the daemon thread, `caught` the results it has got. `pc` is where the
  generator is. In mode `async` it runs in the event loop, driven by `producer()`,
  and blocks that loop while it waits (`LoopIsFree`); `items` is the asyncio queue.
  What the callback of the user returns is free (`ReturnCallback`), and a batch may
  fail at any moment.
* **NoteStore.** A mutation is one Convex transaction, hence one action. Title,
  content and tags are one value, and an update replaces it; what an update of
  only some fields of a note its sender has seen leaves is such a value too.
  `view[c]` is what client c last read, `request[c]` what it has sent and the
  backend has not yet handled.
* **NoteEditor.** A render and the React effects after it are one action:
  `AutosaveEffect` is the effect that writes the draft and arms the timer. The
  effect that loads the note only sets state: `Open` and `Refresh` are the render
  with the new note, whose effects queue the loaded text (`queued`) and then persist
  the *old* text (`LoadEffects`); `Render` is the next render, which has the loaded
  text and writes it back. Anything may come in between. A dialog that opens has the
  text it was closed with, or none. `saves` are calls of `onSave` that have
  not ended; `tracked` says whether the answer still reaches the component.
  `armed` stands for the timer; it saves the text of its closure, which is the
  text of the editor, as every change clears it.
* **MarkdownPreview.** Of a line the model keeps what the loop tests: the rule its
  trimmed form matches, whether there is white space in front (the block rules
  test the line with it, the inner loops without), whether it contains `|`, and
  whether it can be the row under the header of a table. A block of `html`
  carries the numbers of the lines it shows (`Shown`), and `codeLines` those of the
  open code block, which are shown only when a fence closes it. An iteration that consumes nothing
  is a step that changes nothing, so a loop that never ends is a behaviour that
  stutters for ever.
* **AgentProxy.** `pc[r]` is where the `POST` of request r is, `call[r]` where the
  request to the agent is; one that the route has given up may still be received by
  the agent later. `sessions` maps a
  key to the id of the session; the continuation token only decides whether it is
  stored. Session ids are numbers, which clients may send back as keys.

## Runs

| run | instance | states | what it shows |
|---|---|---|---|
| `thread_pool` | 2 clients, 2 workers, 4 jobs, queue of 2 | 28,356 | the safety, wakeup and liveness properties of the pool; it implements `JobPool` |
| `replica_lifecycle` | 2 callers, 2 workers, 2 batches in calls of 1 or 2, synchronous and asynchronous, computations that throw, loads and unloads that fail half-way | 310,033 | the shared lock protects every batch of a call until the call leaves; calls and batches are answered; what the flag tells of the replicas, also after a failure |
| `batch_reader` | sources of up to 4 lines of 0, 1 or 3 tokens, targets of up to 4 lines, sizes 1, 3, 4, both types, with and without padding | 20,205 | the reader loses and repeats nothing and fills its batches |
| `file_translation` | files of 0, 3 and 4 lines, with complete and short targets, batches of 2, chunks of 3 or 32, 2 workers, queue of 1, failing batches | 19,750 | the output keeps the order of the input; the call ends |
| `buffered_translation` | 2 clients, 4 requests, batches of 2, buffer of 3, 2 workers, queue of 1, failing batches, the wrapper destroyed while batches wait | 63,998 | futures get their own results; requests are answered unless the wrapper is destroyed before their batch has copied its options; the destructor leaves none in the buffer |
| `decoding` | 22 kinds of call: 2 or 3 entries, beams of 1, 2 and 4, lengths of 2 to 4, prompts that are equal, mixed or all longer than a token, hidden prefixes of one length or of two, patience 2, a stopping callback, with and without penalty and expansion of the first step, five of them with logits processors, four with no end token, several of them, or one in a prefix; 12 decoder states per entry (6 with processors, and in the last seven kinds, 4 of three entries) | 109,200 | rows stay aligned, an entry gets the result of the call that has it alone (where the call works out the same settings), results are complete, a wide beam finds a best sequence |
| `token_stream` | 3 entries in 2 batches, up to 2 tokens each, 2 workers, failures, synchronous and asynchronous user | 120,995 | the stream is complete or closed or failed; closing stops the work; waits end |
| `note_store` | 2 clients, 2 notes, 2 contents, legacy notes, versions up to 2 when an update is sent | 1,376,904 | versions and deletion do what optimistic concurrency needs |
| `note_editor` | 3 texts, one of them also padded, 2 saves on their way, other clients that write one of the texts | 179,812 | nothing typed is lost unless a load is cut off from its render; changes are drafted; text is saved or reported |
| `markdown_preview` | every document of 1 to 3 lines of any kind, and of 4 and 5 lines of 8 kinds | 248,316 | lines are shown once and in order, but for those of a code block without an end; rendering ends without indented blocks |
| `agent_proxy` | the page and another client of the route, a session key by default and session ids sent back, late answers, calls that reach the agent after they were given up, lost replies | 151,920 | a message reaches the agent at most once and gets one entry in the chat |

The run `agent_proxy_fallback` has the same instance and is expected to find a
violation: the comment at `api/agent/notes/route.ts:123`, "Fallback: try starting a
new session if continuation failed", is not what the code does. The catch clause
reads the body of the request again, which throws, so it answers 503 without
calling the agent. Continuation does fail: a session is stored under the key of the
thread (line 104) and looked up under its own id (line 30), so that every message
after the first on a key is refused until the process is restarted, unless the
client sends the id back as its key.

More disagreements were met and have no run of their own. These the models show,
without a property that forbids them:

* `unload_model` reads the number of active batches before it tries the mutex, so
  that a batch posted in between by a call that has left, an asynchronous one or one
  that left at the first exception (`Await`), loses its replica: it fails, or goes on
  computing with the memory of a destroyed replica (`ComputeDangling`).
  `python/cpp/replica_pool.h:114` says "Do not unload the model if some batches are
  still being processed."
* If the copy to the CPU throws in `unload_model`, the replicas are gone but
  `_model_is_loaded` stays set and `load_model` does nothing (`CloneFails`);
  `translator.cc:604` says "Whether the model is loaded on the initial device and
  ready to be used."
* If `set_models` throws half-way in `load_model`, the workers before keep their
  replicas while `_model_is_loaded` stays unset, so that `unload_model` does not free
  them (`SetModelFails`; `FlagTellsReplicas` states what the flag does tell).
* The destructor of the buffered translation waits for its thread and for no batch. A
  batch that begins later reads the destroyed `_options`
  (`buffered_translation_wrapper.cc:104`), also when the wrapper holds the last
  reference to the translator: `_translator` is its first member and destroyed last
  (`CopyOptions`; `OwnResult` and `EveryRequestAnswered` except what follows).
* The flush of the buffered translation is rounded down to full batches also after
  a time-out: the rest waits for another one, although
  `buffered_translation_wrapper.cc:78` says "Build full batches unless the timeout
  is reached or we are stopping the process."
* The load effect queues the loaded text, and the persistence effect of the same render
  then writes the old text over the draft (`note-editor.tsx:446-494`): a crash, a close
  or a second fetch before the next render loses what was typed,
  although `TODO.md:42` ticks that drafts are restored after a refresh or a crash.
  `TypingIsKept` excepts just these (`CutOff`).
* A recovered draft is saved over a newer note after three seconds (`Reload`, `Open`,
  `Autosave`), although `TODO.md:45` ticks that recovery does not silently overwrite
  newer cloud content.
* An indented list item after a paragraph, or any other indented block, is consumed
  by no rule and not by the paragraph loop: the preview never returns
  (`note-editor.tsx:267`), although `SPEC.md:158` lists bullet and ordered lists.
  `StopsOnlyAtIndentedBlocks` says that this is the only case.
* The answer to an older save sets the status to saved although newer text is in
  the draft; the comment at `note-editor.tsx:511` says "the draft on disk is now
  identical to the server" (`Settle`).
* The parallel reader does not report a *first* stream that is shorter than the
  others (`batch_reader.cc:135`; `EndedMeansComplete` states what it does report).
* `updateNote` takes the version as optional although `TODO.md:33` ticks that it
  requires one (`VersionedUpdateReplacesSeen` states what a version gives to those
  who send it).
* Text that differs from the note only in white space at its end is saved again
  although `TODO.md:44` ticks that duplicate autosaves are prevented.
* A code block whose fence is not closed is left out of the preview: its lines stay
  in `codeLines`. `LinesShownOnce` says that these (`Unclosed`) are the only ones.
* A task under a bullet becomes an item of that list and loses its check box
  (`ListKinds`).
* With a prefix that is not returned and a beam, `apply_min_length` disables the end
  tokens in the row numbered like the entry, not in the rows of its beams
  (`MinLengthRows`): the minimum length is not kept. With prefixes of two lengths
  this takes no minimum length: as long as the longer prefix is forced, end tokens
  are disabled in a row of the other entry. `RowsAligned` and `ResultsComplete`
  except these calls (`MinLengthMisplaced`).
* The result of an entry depends on the batch in two ways, which `BatchIndependent`
  excepts (`SettingsOwn`). The prefixes are dropped only when all prompts have one
  token (`decoding.cc:1005`): next to a longer prompt, the beams of an entry with a
  prompt of one token have end tokens penalised in their first step
  (`decoding.cc:54`), and alone they do not. And with `include_prompt_in_result=False`
  the tokens forwarded before the search, and with them whether the prefix is
  returned, come from the shortest prompt (`language_model.cc:217-238`).
* Options that together disable every word of a row (a minimum length with an n-gram
  size of 1 and a small vocabulary) leave a uniform row: `lowest()` is the same for
  all, and the forbidden words are chosen among silently (`Uniform`).
* The first start token and the words that are forwarded before the search are not in
  `alive_seq`: repeated n-grams, banned sequences and the repetition penalty do not
  count them (`NgramFinals`, `SequenceFinals`, `WordCost`).
* `include_prompt_in_result=False` forwards what the shortest prompt allows. With a
  prompt of one token in the batch that is nothing, and `return_prefix` stays set:
  the longer prompts appear in the results (`language_model.cc:222`, `ReturnPrefix`).
* With several end tokens, the secondary candidates of an entry may all end: a beam
  that nothing replaces then goes on past its end token (`ActiveCandidate`), although
  `translation.h:40` says "Stop the decoding on one of these tokens". Hypotheses that
  differ in their end tokens are also returned as the same words when these are left
  out. `ResultsComplete` excepts both (`SeveralEnds`).
* Without `include_eos_in_hypothesis`, greedy search leaves every end token of a
  returned prefix out of the result, and beam search the last one of a prefix that
  the maximum length cuts off: the hypothesis no longer continues the prefix
  (`EndInPrefix`).
* A first word that ends a hypothesis and costs nothing leaves an empty hypothesis,
  whose score is normalized as 0/0 (`EmptyForFree`).
* A callback of greedy search may stop an entry inside a prefix that is returned, and
  options that forbid every word may force an end before the minimum length:
  `WordsComplete` excepts these.
* An exception leaves `_generate_tokens` without joining its thread, while other
  batches go on, although `extensions.py:523` says "Wait for the job to terminate
  before exiting." `producer()` dies of it without putting `None`, so that
  `__anext__` waits for ever: `WaitsEnd` excludes just that. A user who leaves the
  `async for` does not stop the generation (`AbandonNext`).

These were met while reading code that is not modelled:

* `load_examples` skips an empty stream: an empty list of sources with a list of
  targets translates the targets (`batch_reader.cc:163`).
* `logits_vec[i * k]` is moved from twice and names another row than the beam
  (`decoding.cc:634`); `logits_orig` is moved to the first callback only (`:935`);
  `beams_diverged_from_prefix` is not reordered with the beams (`:683`).
* The page swallows the errors of saves (`page.tsx:63`), compares with a note of an
  earlier render after a deletion (`:77`), and refreshes its notes only for a reply
  with a tool part (`:120`), which the proxy never sends (`route.ts:114`).
* A note that does not exist yet has no id: each autosave may create another one
  (`note-editor.tsx:502`).
* A note that is fetched again is a new object, for which the effect of the inline
  editor replaces the text that was not saved (`note-editor-inline.tsx:269`).

`ImplementsJobPool` also says that no job runs twice, that the queue stays within
its size and that nothing is left when the destructor returns. The theorems state
these as `RunAtMostOnce`, `QueueBounded` and `DrainedWhenDestroyed`.

### Bounds, and why they are enough

* Threads: two on each side are what a race needs: two clients woken for one
  slot, two workers for one job. In `ThreadPool` four jobs fill a queue of two,
  which has an order to keep, while both clients sleep; the other runs use a queue
  of one, full after every post.
  The proofs remove these bounds where there are any (see below).
* Lines of a file: four of two lengths are reordered by the sort, cut into more
  batches than workers, and spread over two chunks; a source with a short target
  throws in the middle, one without lines at once.
* Requests: four for a buffer of three and batches of two let the buffer hold
  more than one batch and an odd rest.
* `MaxBatches` in `ReplicaLifecycle`: a call of two batches has one that throws and
  one that still runs when the call leaves.
* `MaxVersion` in `NoteStore` stops new updates of notes above version 2: when a
  versioned update has made version 2 and its reply is lost, the retry is still sent,
  and refused. Requests on their way raise the version further, and legacy notes
  without a version pass through the first values.
* `OtherBodies` in `NoteEditor`: others write one of the texts, which is enough for
  the note to differ from the text, from the draft and from what was typed, and to
  come back to a text that was stored before.
* `Slots` in `NoteEditor`: two calls of `onSave` at once let answers overtake
  each other. The save button leaves one slot to the timer, so that the bound
  cannot keep the timer from saving.
* Documents: three lines of any kind are a header, its delimiter and a row, or a
  list between two other blocks; five lines of few kinds are an open fence, code,
  a closing fence and blocks around them.
* Calls of `decode`: a vocabulary of four words, one of them the end token (none, two,
  or one that is in a prefix in four kinds of call), gives a
  beam of two its four candidates; two entries with every pair of twelve decoder
  states (costs are a hash of the state and the words read) end at every
  combination of steps, and with three entries one may end between two others. A
  beam of four is as wide as the tree of the sequences of two words. Prompts of one
  length, or that are all longer than a token, are the calls of which
  `BatchIndependent` speaks in beam search; in the others its exception holds.
* Entries of a stream: two in one batch and one in another show an entry that stops
  alone, a batch that has not started, and one that fails while another goes on.
* `MaxMessages` in `AgentProxy`: two messages of the page and one of another client
  give a session to continue, one to overwrite, and an answer that is late for the
  next message.
* `Jobs` bounds what is posted in a behaviour in every module with a pool.

`CHECK_DEADLOCK FALSE` is said in every configuration: all jobs may have run,
the pool may be destroyed, the file translated or rendered, nobody has to type.

### Fairness

* Threads: weak fairness of the steps of each thread, since the operating system
  runs every thread that can run. A waiting thread is runnable only after a
  notification; no fairness is assumed of spurious wakeups, so no property
  depends on them. A step that takes a mutex is enabled whenever the thread is at
  it, as critical sections are single actions: this assumes a mutex that does not
  starve a thread forever.
* Nobody has to post a job, call a method, or destroy an object.
* `Timeout` in `BufferedTranslation` is strongly fair: `wait_for` computes its
  deadline once, so waking for no reason does not put it off.
* `NoteEditor`: a timer that runs fires and a save on its way ends, rejected at
  the latest by a network error. A user who types for ever, or a parent that
  renders for ever, restarts the timer; `TypingIsSaved` speaks of text that stays.
* `MarkdownPreview`: a function that was called runs until it returns. `BatchReader`
  and `Decoding` have no liveness property: one call is one thread that ends at the
  latest after a bounded number of steps.
* `TokenStream`: workers, the waiting thread, the generator and the event loop go
  on; a user need not ask for another token and may leave at any time.
* `AgentProxy`: the browser gets a reply or an error, and the route goes on; the
  agent need not answer, the time limit of 30 seconds stands for it.

## Proofs

Each proof module names the assumptions on the constants it uses; they are those of
the module it is about, and TLC evaluates them in the run of that module.

### ThreadPoolProofs

It proves, for any finite sets of clients and workers (at least
one worker), any set of jobs and any capacity of at least one (the assumptions
`ThreadsAssumption`, `CapacityAssumption`, `NoJobAssumption`):

* `TypeCorrect`: the type invariant. It is not inductive: that `put` and `run`
  get a job and not a null pointer follows from where threads own jobs, so
  `TypeInv` adds that a thread holds a job exactly at the labels of `Holding`.
* `PoolInvariant`: `PoolInv`, the inductive invariant: `TypeInv`, `Ownership`
  (each job object in one place, run exactly when it is about to be destroyed),
  `RunAtMostOnce`, `ClosingOrder` (who is where once the end is requested) and
  `QueueBounded`. `RunAtMostOnce` needs `Ownership`: a job is run only from a
  hand, and a job in a hand before `release` has not run. `Ownership` needs
  that `post` takes a fresh job, `ClosingOrder` that a worker leaves only an
  empty queue and that no client posts after the end is requested.
* `OneOwner`, `ExactlyOnce`, `Bounded`, `OrderlyClosing` follow from it.
* `CounterCorrect`: `CounterExact`, by counting: each action adds or removes one
  element of the queue or of the set of holders, or moves one between them.
* `Drained` follows from `ClosingOrder` and `CounterExact`.
* `NoWorkMissed`, `NoSlotMissed`: the two wakeup invariants. They are inductive
  with `TypeInv`, since each thread that stops being awake or about to notify
  moves one worker to `get`, one client to `put`, or finds none asleep.
* `Refinement`: `Spec => Pool!SafeSpec`. Initial states map to initial states;
  `PutJob` maps to `Accept`, `GetJob` to `Start`, `RunJob` to `Finish`, `Close`
  to `Close`, `JoinAll` to `Destroy`, everything else to a stutter.

### ReplicaLifecycleProofs

For any callers, workers, batches, batches of a call and any size of the queue, with
computations, copies and loads that fail or not: `SyncCallsKeepModel`
(`SyncBatchSucceeds`) and `FlagIsTold` (`FlagTellsReplicas`). The inductive invariant
`LifecycleInv` says who holds the mutex at which label and that a model somebody
holds is loaded (`LocksHeld`), what the flag tells of the replicas, between the calls
and in the middle of one (`ReplicasTold`), where the batches of a call are
(`BatchesOwned`: none of them is another call's, those it waits for are posted, and
only a batch that has run has an outcome), and that while a call holds the lock its
batches keep their replicas (`HeldKept`). The last needs the others: only a call that
holds the mutex alone destroys replicas, and a call that waits holds it shared. It is
not claimed of the batches a call leaves behind at an exception, of which it is
false.

### BatchingProofs

About the operators of `Batching`, for every input, every order the sort may leave
and every limit:

* `BatchesCarryTheirIndex`: in every batch of `rebatch_input`, `example_index` names
  at k the k-th example of that batch. `EveryExampleBatched`: no example is left
  out. `EachExampleOnce`: none is in two batches, or twice in one.
* The batches are a recursive function of the position in the sorted order, and the
  provers have no induction over it; a least position at which a claim fails, which
  exists as the subsets of a finite set are well-founded (`LeastNatural`), takes its
  place. The folds behind `FlattenSeq` and `MapThenSumSet` are unfolded in the same
  way, to say what one more part or one more number changes (`FlattenAppend`,
  `FlattenMore`, `SumType`, `VolumeSum`). The general facts about sums and sequences
  that the decoding proofs use are at its end.
* `BatchLengthRange` and `BatchLengthFits` bound what `get_next` takes: at least one
  example and at most those left, and within the maximum size unless it is a single
  example.

### FileTranslationProofs

About the reader (`ReaderAssumption`: an input is at least one stream of lengths, a
call has a positive size): `ReaderSkipsNothing` (`NothingSkipped`), `BatchesAreFull`
(`BatchesFull`) and `ReaderEndsComplete` (`EndedMeansComplete`). `ReaderInv` adds
that the example read ahead is the one after the batches.

About the translation of a file, for any file, workers, capacity, batch and chunk
size (`CallsAssumption`: it calls the reader as `consume_batches` does):
`OutputIsInOrder` (`OutputInOrder`), `DoneIsComplete` (`DoneMeansComplete`), and
`PromisesSetOnce`, that no promise is set a second time, which would throw in a
worker. The inductive invariant `FileInv` says that

* an answer is the translation of its own line (`OwnAnswers`), because
* every batch, posted or still to be posted, has the promises of its own examples, and
  no two promises are for one line (`OwnPromises`, from `BatchesCarryTheirIndex` and
  `EachExampleOnce` when a chunk is read);
* a batch that is queued has set none of its promises, and one that runs has one left
  (`PromisesLeft`);
* the queue of futures goes on where the output stops, up to the lines that were
  read (`FuturesInOrder`).

### BufferedTranslationProofs

For any clients, requests, workers, batch and buffer sizes: `EveryFutureItsOwn`
(`OwnResult`) and `NoFlushMissed` (`NoLostFlush`). `BufferInv` has the answers
without the exception of `OwnResult` (`OwnAnswers`: the model lets the threads go on
after the fault) and adds that the two
queues of the buffer hold the same requests and that every batch, flushed or posted,
has its own promises (`Paired`). That a flush keeps this is `FilledPaired`, from
`BatchesCarryTheirIndex`.

### DecodingProofs

For any vocabulary, any calls and any decoder that returns a number for each word
(`NaturalCosts`): `RowsStayAligned` (`RowsAligned`), `EntriesIndependent`
(`BatchIndependent`) and `HypothesesComplete` (`ResultsComplete`). `SearchInv` is
inductive: the arrays of a search have a row for each beam of each entry that is left (`Sized`, with
`expanded` exactly where the code repeats the rows); each row holds a history of its
own entry of the length of the step (`Aligned`); and the score of a row is a penalty
or the cost of its words (`ScoresOK`).

One turn of beam search is followed row by row. `Flat`, `EntryOf` and `RowOf` are
inverse to each other (`FlatBack`, `FlatCover`), and joining the rows of the entries
puts row `k` of entry `n` at `Flat(n, k, size)` (`FlattenRows`). `TopK` selects by
rank: a strict order on a finite set gives each member its own rank (`Ranked`), and
costs with the position as tie-break are one (`BetterOrders`). There are enough
candidates for twice the beam, since the first step without repeated rows takes a
vocabulary of that size (`BestIs`). So the candidate that goes on in a beam comes from
a row of its entry (`ActiveIs`, `WithPrefixOK`), and entries and rows leave together
(`GatheredIs`, `BeamTurn`; `GreedyTurn` for greedy search). That the logits processors
disable what the options forbid after the words of the row is `DisabledIs`, and that a
word adds its own cost to the cost of a sequence is `PathCostMore`, which takes that a
sum over a set does not depend on the order (`SumsAnyMember`).

`EntriesIndependent` relates the searches of two calls. `BatchInv` adds to
`SearchInv` that, if the two settings are the same (`SettingsOwn`), the search of the
entry alone is well formed and agrees with the batch (`Together`): its
results are the same, it is empty when the entry has left the batch, and otherwise its
rows have the words, histories and scores of the rows of the entry (`Like`), `Gap`
rows before them. The costs are then the same (`LikeCosts`, from what `NextCost` says
of each), the candidates are the same but for the row they come from (`LikeChoices`),
and a shift of the rows keeps the rank of every candidate, those with equal costs
included (`ShiftedRank`). So the same beams finish and the same candidates go on
(`LikeBeams`), the entry leaves both searches at once with the same results
(`LikeResults`), and the rows it goes on with are alike again (`BeamLike`; `GreedyLike`
for greedy search). All this is about a search with the settings of the batch. That the
call of the entry alone makes the same one is the chain from `OwnFields` to
`OwnBeamStep` and `OwnGreedyStep`: each operator of the loop, with the other call,
gives on the rows of that entry what it gives with this one. A beam search of an entry
that has its own settings hides no prefix (`OwnBeam`): alone, all of a hidden one is
forwarded before the search. So the minimum length is not misplaced there. The limit
of the steps is the entry's own too: `Waiting` says that it is not left after the
longest result it may have, so that the lower limit of the other call ends nothing
early.

`HypothesesComplete` is about what a search returns, and `RowsAligned` says nothing
of that: a search could end with too few hypotheses, the same one twice, or one that
ended earlier. `CompleteInv` adds to `SearchInv` what holds of the rows between two
steps, and TLC found it to hold before it was proved. In each row the prefix is
followed by words the options allowed where they were chosen (`OwnWords`), without
an end token among them (`EndFree`); the rows of an entry with a score of their own
differ (`BeamRowsOK`); and the hypotheses an entry has registered come from such rows,
shorter than those that go on (`DoneComplete`), so that a later one is not one of them
(`ReturnedOnce`, `HypothesesGrow`).

The step that matters is replacing a finished beam. A row has one candidate for the
end token, so at most as many candidates as there are beams end
(`EndTokensCounted`), and of the twice as many that are selected enough are left:
each finished beam finds its own spare candidate (`ActiveGoesOn`), no candidate goes
on twice (`ActiveDistinct`), and no row goes on past its end. This argument is why
several end tokens are excepted. An entry leaves with enough hypotheses, since all
its beams end at the maximum length (`LeavingEnough`). `finalize_result` selects by
rank, so that each hypothesis is returned once and the scores, compared by cross
products, are in order (`FinalizedIs`, `CrossLess`). What the words of a row mean for
the hypothesis made of them, with the prefix and the last end token returned or not,
is `CompleteWords`. For greedy search, one row goes on or leaves (`GreedyExtends`,
`GreedyRowLeaves`).

### TokenStreamProofs

For any batches, lengths and workers (`StreamAssumption`):

* `ClosingStopsEntries` (`StopsAfterClose`): a token put after the close belongs to a
  callback that has not returned, or to an entry that has ended (`LateEnds`).
* `StreamsAreComplete` (`StreamComplete`). `OrderInv` says that what the user got,
  followed by what is queued, has the tokens of each entry in order and up to the one
  that is being generated (`TokensInOrder`); that the results caught are those of
  batches that have ended (`ResultsCaught`); and that `None` comes after every
  result and nothing after it but an exception (`NoneIsLast`).

### WebAppProofs

The four modules of the note editor.

For any clients, notes and contents, and whatever the bound on new updates:
`StoreTypeCorrect`, `VersionsIdentify`, `RetriesApplyOnce`, `VersionedUpdatesSafe`,
`DeletionsAreFinal`. `StoreInv` relates what each client has seen to what is stored:
a note seen at some version has an id that was used (`ViewUsed`), and the note has
not gone back since, nor has it other content at the same version (`ViewOld`); a
version that a request expects is one its sender has seen (`ExpectedSeen`); an
update with a version that was applied has left that version behind
(`AppliedOutdates`), which is why a retry is refused.

For any texts and any number of saves on their way: `EditorTypeCorrect`,
`TypingNeverLost` (`TypingIsKept`), `EveryChangeDrafted` (`ChangesAreDrafted`). The
strengthening is `KnownStored`: the text the editor compares with was in the
backend, so a draft that is dropped because it equals that text loses nothing.
`LoadStep` is the render that overwrites the draft, whose text is queued then, and
`RenderStep` the one that writes it back; what a load cut off in between may lose is
the exception `broken`, and typing again ends it.

For any document: `EveryLineShownOnce` (`LinesShownOnce`). In `PreviewInv`, the blocks
and the open code block (`Taken`) have lines before the index only, in increasing
order and none of them twice (`LinesOrdered`), and every such line that is not left
out is in one of them (`LinesCovered`). The inner loops are `Numbers`: that they collect each
line from one index to another is `NumbersAre`.

For any pages, keys and numbers of messages: `NeverAskedTwice` (`AskedOnce`).
`NotAskedYet` says that a message that was not called for, or whose call has not
arrived, has not reached the agent: a call may arrive after the route gave it up, and
after a failure nothing is called again.

### Only model-checked

Liveness and the fairness part of `ImplementsJobPool`, whose proofs need ENABLED. Of
`Decoding`: `WideBeamIsExact`. It compares a beam of `V^(n-1)` rows with all sequences
of `n` words: the provers know nothing of `^`, and counting the sequences is an
induction over their length, for which no theorem is at hand that they can use.

## Not modelled, and why

* **Layers, operators, storage**: numerical code on tensors.
* **In decoding**: random sampling, biased decoding, the coverage penalty,
  alternatives, several hypotheses of greedy search (which only repeat the entries
  for sampling), processors given by a caller, and the outputs for attention and
  logits. They change costs or add outputs, and follow the rows the model follows.
* **The iterables of `extensions.py`** (`_process_iterable`): one thread that posts a
  bounded number of batches and reads their results in order.
* **`load_examples`** and the conversion of Python arguments.
* **Devices, allocators, profiler, logging**: wrappers, or no effect on the
  behaviour of the rest. A worker's `idle` only synchronizes a stream.
* **Starting the threads**: `set_thread_affinity` may throw when only some were
  started; this depends on the build and on no interleaving.
* **UI components, agent tools, channels**: rendering and stateless requests.
* **Files**: independent documents without versions.
* **The notes page and the inline editor**: plain requests and responses without
  versions, drafts or retries, in which the last response shown wins.
* **React's Strict Mode**, which runs effects twice in development.

## Plan

Done, in order of importance: the thread pool and its theorems; the life cycle of
the replicas; batching, the reader, file and buffered translation; the note store,
the editor and the preview; decoding; streaming; the agent proxy; theorems about
every part, down to what a decoded entry returns.

What is left:

1. The parents of the editors: a note that does not exist yet, the panel that
   closes the dialog after a save, the page with the inline editor.
2. `load_examples` and the Python iterators, which translate lists in memory.
3. Biased decoding and alternatives.
