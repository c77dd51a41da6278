# A TLA+ model of samblah

samblah is an interactive client for SMB shares: a readline prompt, a table of
commands, globbing on local and remote names, resumable and recursive
transfers, all in one single-threaded C program on top of libsmbclient. What
makes it hard to get right is what happens around its loops: two signals
(SIGINT sets `int_signal`, SIGALRM redraws the progress line) that arrive at
any moment, requests that fail, other clients of the share, and the state that
one command leaves to the next.

This directory holds TLA+ modules translated from the source, configurations
with which TLC checks them on small instances, and proofs for every value of
the constants, which TLAPS checks. References such as `transfer.c:304` are
lines of the repository.

## 1. Inventory

| Component | State it keeps | Operations | Module |
|---|---|---|---|
| main, do_init (`main.c`, `init.c`) | none | connect from the command line, read the configuration | `Session` (Start) |
| command loop (`interface.c`) | `done`, `int_signal` | do_line, do_command, int_handler | `Session`, `Line` |
| commands (`cmds.c`) | none | one function for each command, with its loop over arguments | `Session`, `TransferTree`, `RemoveTree`, `ListTree`, `Move`, `Page` |
| connection, requests, listings (`smbwrap.c`) | `connected`, `smb_user` ... `smb_path`, `doing_listing`, `list_user`, `list_pass` | smb_connect, smb_chdir, smb_open, ..., listuri, auth_callback, evalpath | `Session`, `Path` |
| recursive transfer (`transfer.c`: transfer, mkpath) | a stack of open directories, the answer for all | get, put | `TransferTree` |
| one file (`transfer.c`: transferfile, askonexist) | two handles, the resume offset | overwrite, resume, skip, ask | `TransferFile` |
| copy loop (`transfer.c`: copybyfd, alarm_handler) | counters, the alarm, SIGALRM's disposition | the read/write loop | `FileCopy`, `CopyByFd` |
| progress line (`transfer.c`: makeprogress, printprogress), columns (`misc.c`) | an average and times | layout, stars, average, ETA; printcolumns | `Screen` |
| page (`cmds.c`, transfer_get_fd) | a temporary file and its descriptor | page | `Page` |
| globbing (`smbglob.c`) | one buffer shared by a recursion | smbglob, tokenglob, tokenmatch2 | `Glob`, `Globbing` |
| rm (`smbhlp.c`: smbhlp_remove) | a stack of open directories | rm, rm -r | `RemoveTree`, `Share` |
| ls (`cmdls.c`) | one open directory, a stack of lists | ls, ls -r | `ListTree`, `Share` |
| mv (`smbhlp.c`: smbhlp_move) | none | rename one thing, move several | `Move` |
| tokenizer, quoting (`parsecl.c`) | none | tokenize, unescape, quote, isquoted | `Tokens`, `Line` |
| completion (`complete.c`) | none | complete, commonlead, filematch | `Completion`, `Line` |
| options (`egetopt.c`) | `eoptind`, `eoptreset`, `pos` | egetopt | `Options`, `Line` |
| lists (`list.c`) | elements, count, capacity | list_add, list_prepend, list_replace | `Lists`, `Line` |
| variables, strings, messages (`vars.c`, `str.c`, `misc.c`) | tables and buffers | | not modelled |
| aliases (`alias.c`) | a list | not built by the Makefile | not modelled |

How they interact: do_line reads a line, clears `int_signal` before it and
calls do_command, which checks whether the command may run with or without a
connection, has smbglob replace its patterns, and calls its function. The
functions reach files only through smbwrap.c, which builds a URI from the
buffers of the connection and leaves authentication to auth_callback, a
callback of libsmbclient. Transfers go transfer -> transferfile -> copybyfd,
page goes transfer_get_fd -> copybyfd. `int_signal` is the only way in which
the user's ctrl+c reaches any of them: every loop tests it, nothing else does.
Before a line is a command it was edited with completion, whose answers the
tokenizer has to read back, cut into tokens, globbed and searched for options;
all of this happens on the lists of list.c.

What makes each part correct:

* copy loop: the destination is right at every moment, a success is complete,
  handles are closed once, errno and the progress counter tell the truth, the
  timer never outlives its handler;
* one file: nothing existing is changed without consent, also not in the race
  between looking and opening; a resume keeps what it promises to keep and
  repairs what a broken transfer left;
* recursive transfer and removal: every file once, nothing that was not asked
  for, nothing left behind in silence, handles closed on every level, and a
  prompt stop;
* globbing: exactly the files that match, or no command at all;
* mv and ls: what cannot be moved is told, nobody's file is lost on the way,
  and what is listed is there, once, also while others change it;
* the typed line: the tokenizer, quoting, completion and readline's idea of
  what is quoted agree with each other on every line, and a command gets the
  options of its own words;
* session: every request carries the credentials it should, and goes to the
  directory the user is in, whatever failed before.

## 2. The modules

`X_Fault` (also `X_Fault1`, ...) beside a definition `X` is `X` with a
plausible mistake. The model never uses it; it is substituted for `X` to see
that the property about it is violated then.

**FileCopy** is the abstract specification of a copy: a destination receives
a source, in order and in pieces, until all has arrived or the copy gives up.
A file is a function from positions to blocks; block *i* of the source holds
*i*, so a block in the wrong place shows.

**CopyByFd** is copybyfd with a step for every system call: read, write, two
closes, alarm and sigaction, and alarm_handler between any two of them.
`intr` is `int_signal`, `disp` and `timer` the state of SIGALRM, `count`,
`left` and `transferred` the variables of that name. SIGINT can come at any
moment; SIGALRM when its timer runs, and with `MidCall` also inside a system
call, to be delivered when it returns. `ZeroWrites` lets a write accept
nothing. `RefinesFileCopy` is the refinement: *phase* follows from `pc`,
*result* is the return value, *pos* the offset of the destination's handle.

**TransferFile** is transferfile and askonexist around that copy, which is
an INSTANCE of FileCopy. The same file is transferred again and again, with
every mode and answer, while other clients create the destination and remove
it, also while it is open: then the handle writes on into a file that has no name
(`lost`).
A failed copy may leave up to `Rollback` blocks damaged: this is what
`RESUME_ROLLBACK` provides for.

**TransferTree** is cmd_get and cmd_put around transfer: the arguments, `-r`
and `-o`, mkpath, the recursion as a stack of activations, and the answers
for one file and for all. A path at the destination is a sequence of names
(`dst` is dpath, and `Destination` what the commands begin with: the last name
of a file, the path of a directory, the current directory for a directory from
elsewhere, or what follows `-o`). At the destination there may be directories
and files before, also files where a directory belongs: mkpath and transfer take
EEXIST for success whatever exists, so such a directory is walked with nothing
behind it. A file of the source is one step here, apart from the question, and
can only arrive where its directory exists (`Room`).

**Page** is cmd_page and transfer_get_fd, on top of an INSTANCE of FileCopy,
with the descriptors and temporary files that outlive a command.

**RemoveTree** is cmd_rm and smbhlp_remove. Any request may fail, and another
client adds files. **ListTree** is cmd_ls and cmdls.c: the arguments are
examined and printed, then each directory is read, closed and printed before
one below it is listed. list_sort gives any order its comparison allows
(`Orders`), and what printls prints of a sorted list is counted in the columns
of printcolumns (`Places`). The tree both walk is **Tree**. **Share** puts the two side by side, two users of one
server: they have `exists` in common and nothing else, so ls meets files that
go between readdir and stat, and directories that go before opendir.

**Move** is cmd_mv and smbhlp_move. A path is a sequence of names, and `place`
says for each thing in which directory and under which name it is, so that
what is in a directory moves with it. Other clients make and remove things
between any two of the requests.

**Glob** is smbglob.c. The buffer that all activations of tokenmatch2 share
is the set `cut` of components behind which it has a NUL by now. Names are
numbers in the order of the strings, and fnmatch is a constant function. A
component as it is typed and one of a file are told apart: unescape is the
function `Unescaped`, and it is applied where the code does so, to a token that
is taken literally (`TakeLiterally`), to the last match when it is globbed
again, and not to the components of a pattern. That
whatever is above a file of the tree is a directory of it is assumed
(GlobAssumption). **Globbing** is Glob with other names for its variables, so
that Terminal_proofs can extend Line and Glob both; the runs use it.

**Session** ties it together: the command loop, the table of prerequisites,
and the connection. `smb`, `connected`, `list` and `listing` are the static
variables of smbwrap.c. Every request is recorded in `sent` with the
credentials in its URI and those auth_callback would give. Commands that work
on files are a loop over a number of arguments, each a request; what they do
with a file is in the modules above. The histories `session` and `wanted`
record what the last successful `open`, `cd` and listing asked for.

**Line** follows what is typed until it is a path in a request. It composes
five modules. **Lists** is list.c: elements in memory of some capacity, with
what was never written told apart from NULL. **Tokens** is parsecl.c:
tokenize_generic as a function of the characters read so far, unescape, quote,
and isquoted, which goes over the same line with code of its own.
**Completion** is complete.c: the vector readline is given. **Options** is
egetopt.c with its static variables, one call at a time. **Path** is evalpath
on the components of a path, with the bounds of its buffer, and smb_chdir and
evaluri, which calls it on smb_path and restores that afterwards. In Line the
typed characters become some list of words, whatever they were: what the
tokenizer makes of them is checked on the line itself, and globbing, options
and paths then start from all lists of words, not from the few that five
characters can spell.

**Screen** has no state: the columns of printcolumns, and the widths of the
progress line, its stars, its average and its ETA as operators on numbers.
ListTree prints through its columns.

## 3. What the runs check

| Run | Bounds | What it shows |
|---|---|---|
| `copy_safe` | files of 3 blocks, buffer of 2, all behaviours of signals and writes | Integrity, HandlesClosedOnce, ErrnoTellsCause, ProgressHonest, PromptStop |
| `copy_impl` | the same, no signal inside a call, writes accept something | AlarmConfined, SuccessComplete, RefinesFileCopy, Returns |
| `file_get` | files of 4 blocks, rollback of 2, others create and remove the file at any moment | OnlyWithConsent, ResumeKeeps, ResumeRepairs, NothingBeyond, HandlesGivenBack |
| `tree_get` | two nested directories and one from `..`, four files, overlapping arguments, 30 destinations | WholeTree, ParentsExist, AllMeansAll, StopsAtInterrupt, DirectoriesClosed, Terminates |
| `page_all` | files of 3 blocks, 2 descriptors | WholeFileShown, NothingLeft |
| `share_all` | three nested directories, rm of overlapping arguments, ls of one directory or a file and a directory, one file added | NothingSilent, OnlyAsked, StopsAtInterrupt, AllHandlesClosed, ListedTruly |
| `move_all` | two directories, two files, one of each made by others; one, two and three arguments | MovedOrTold, NothingLost |
| `glob_lines` | lines of two tokens over eight files, wildcards on two levels, escaped tokens | ExpandsExactly, Terminates |
| `line_all` | 5 typed characters of 6, 10 words, paths of 4 components in a buffer of 6 characters | ReadAsQuoted, ReadsBack, ListsHold, OptionsAsGiven, PathsEvaluated |
| `session_all` | two users, a password, two directories, two arguments | ConnectedAsAsked, FilesAsUser, ListingsAsAsked, StopsAtInterrupt |
| `session_shares`, `page_fds` | | end in a counterexample, see section 4 |

Why these bounds are enough: three blocks with a buffer of two give full,
short and empty reads, a write that takes a part of the buffer, and a second
round of both loops; four blocks with a rollback of two give files shorter
than the rollback, as long, and longer, and a tail that is damaged in part. In
the trees a directory lies in a directory, so the walk returns from a deeper
level to one with entries left, and arguments overlap, so a file is met twice.
In `tree_get` a directory below another is an argument of its own, so mkpath
makes two levels; two files have the same destination, so the second meets the
first; and each place may hold a directory or a file before, or nothing.
In `share_all` d contains e and f, e contains b, and b contains g; rm is given
g and e, ls e or g and b, and the file x may be added to e while it is removed;
two columns fit (`Fit`), so printcolumns has a row that is not full. In
`move_all` every thing is meddled with once at most, which is enough to make a
target appear, vanish, and become a directory between two requests. In
`glob_lines` every token shape meets every other as a second token: patterns
with and without matches, literal and quoted words, and names with a backslash
on both sides; the tokens leave out the shapes of `MCGlob_deep`, `MCGlob_star`
and `MCGlob_backslash`.

In `line_all` five characters hold an open quote, a pair, a closing quote and
a character before and behind; a completion may make the line longer, once.
The words are options alone, joined, with an argument behind or beside them,
unknown, and `--`, `-` and the empty word; two of them and a pattern that
becomes one to three words leave the static position of egetopt anywhere. From
the second command on, lines are recalled instead of typed (`recalled`): what
is typed does not depend on the commands before. Four components of `u`, `v`,
`.`, `..` and the empty one give every order of two that undo each other, and
six characters make some paths too long.

Session needs a second user to tell requests apart and no second share: a
share is a part of the connection like the user. Its proofs, and all others,
do not depend on the bounds.

Histories such as `late` stop at 2 and two temporary files are the most in
`page_all`; nothing else is bounded but by the constants. No symmetry is used.

**Fairness.** `TransferTree` and `Glob` have weak fairness of the
program's own steps (Step) and none of the user, SIGINT or other clients: a
single-threaded process goes on while it can, provided that its system calls
return, and nobody has to type or press ctrl+c. In `TransferTree` that
includes the answer askonexist waits for, or its end of input: `Terminates`
says that the command ends unless a question is left unanswered for ever, which
ctrl+c does not change, as fgets is restarted (SA_RESTART).
`CopyByFd` (FairSpec) has strong fairness of the loop's steps, because a
raised SIGALRM disables them again and again, but only once a second: steps of
the loop are taken between two alarms. A raised signal is delivered (weak
fairness of the handler).

## 4. Deviations found

The two with a run of their own:

* `page_fds` (`transfer.c:84-98`): a page that cannot open or examine the
  remote file leaves the descriptor of its temporary file open.
* `session_shares` (`smbwrap.c:469-476`): `lsshares -u` writes the current
  connection's user and password into its URI.

Further configurations end in a counterexample too. They are kept for whoever
works on these lines (`tlc -config MCX_y.cfg MCX`, or the module's own name without the MC):

* `MCGlob_star` (`smbglob.c:107`): tokenglob returns the position of its last
  match instead of the one behind it, so the last match is globbed again; for
  a file called `*` without end.
* `MCGlob_deep` (`smbglob.c:169`): the NUL that cuts a component is never taken
  back, so behind two wildcards only the first directory is matched to its
  full depth, and files that match half a pattern are taken.
* `MCGlob_backslash` (`smbglob.c:94`, `107`): the last match, globbed again, is
  taken literally and unescaped, so of `put *` the last file, if it has a
  backslash in its name, is another one. And (`smbglob.c:183-195`) a component
  of a pattern that has no wildcard is looked for as it was typed: behind a
  backslash it names no file, and the pattern matches nothing.
* `MCGlob_errors` (`smbglob.c:236-238`): GLB_DIRERR is never returned.
* `MCMove_many` (`smbhlp.c:128-129`): with more than two arguments the test for
  a directory is the wrong way round: a directory as last argument is refused,
  and a file accepted.
* `TransferFile_put` (`transfer.c:353`): after a failed seek of a remote
  destination close(2) is called on a libsmbclient handle; it stays open.
* `MCTransferTree_inway` (`transfer.c:153-154`, `686`): a plain file in the place
  of a directory counts as that directory (EEXIST). `mkdir -p`, which mkpath is
  to be like (`transfer.c:663`), fails there; transfer walks the directory all
  the same, and every file in it fails by itself.
* `MCTransferTree_put` (`transfer.c:245`): after SIGINT in a local directory
  `close(-1)` is called instead of closedir.
* `MCTransferTree_output` (`transfer.c:235`): with `-o` a directory is
  transferred recursively without `-r`.
* `CopyByFd_killed` (`transfer.c:536`): a SIGALRM raised inside `alarm(0)` lets
  the handler set the timer again just before the default action returns.
* `CopyByFd_zero` (`transfer.c:524`): a write that returns 0 ends the copy, and
  copybyfd reports success.
* `MCSession_ctrlc` (`interface.c:97-100, 278`): ctrl+c at the prompt does not
  leave the loop (`main.c:22-23` says it does), and the next command starts
  with `int_signal` set and silently does nothing.

Met while translating, without a configuration:

* `parsecl.c:87`: quote does not escape backslashes, which unescape removes. A
  completed name with a backslash and nothing that needs quotes is read back as
  another name; ReadsBack leaves it out. unescape of a token that ends in a
  backslash reads past its NUL.
* `parsecl.c:230-236`: Tab behind leading blanks adds an empty token, so files
  are offered where a command is expected; `complete.c:86` looks at the
  character before the start of an empty string when the matches have nothing
  in common.
* `complete.c:101-129`: displaymatches strips too much of names in directories
  whose names need quotes.
* Names found by a pattern that begin with `-` are taken for options.
* `list.c:188`: list_replace with an empty list loses the elements behind. No
  caller passes one: Terminal_proofs assumes that it does not.
* mv into a directory replaces a file of the same name there without a
  question (`smbhlp.c:172-190`; NothingLost leaves it out), and keeps the whole
  path of what it moves.
* `cmdls.c:156`: a directory that cannot be opened is passed over in silence.
* `transfer.c:945`: the seconds left are an int, which more than 2 GB at one
  byte per second overflow.
* `interface.c:210-212`: a SIGWINCH between reading the size and clearing
  `winch_signal` is lost.
* `smbwrap.c:421`: smb_workgroups does not clear the credentials of the listing
  before it.
* `transfer.c:304`: O_TRUNC empties the destination before it is known whether
  the source can be opened.

Where code deviates, the passing runs state what does hold: HandlesGivenBack
and DirectoriesClosed for get, SuccessComplete if writes accept something,
AlarmConfined if no signal meets a call halfway, ParentsExist with a file in the
place of the last directory and nothing walked below it, ExpandsExactly and
Terminates for patterns of the other shapes, MovedOrTold and NothingLost for what mv
tests as it is. Session's ListingsAsAsked is about
auth_callback, not the URI, and leaves out workgroups, for which nothing says
as whom they are listed.

## 5. What is proved

**CopyByFd_proofs.** Assumptions: `MaxSize` and `BufBlocks` are positive, the
two switches Boolean. The properties are not inductive by themselves: that the
destination holds the source up to the offset says nothing of where the next
write goes. The inductive invariant `IInv` adds how the two offsets and
the parts of the buffer relate in each state of the loop (Offsets), how the
counter lags behind them (Credit), which of the five ways out was taken (Exit)
and what errno and `save_errno` hold on it (Errno), which handle was closed at
which step (Closed), how many calls were begun since SIGINT (Late), what is
known at the end (AtEnd), and that timer, pending signal and disposition agree
if no signal is raised inside a call (Quiet). One lemma for each part shows
that every action keeps it; the theorems TypeCorrect, CopyIntegrity,
HandlesClosed, ErrnoKept, ProgressExact and StopsPromptly follow. Complete and
Refinement have the further assumption `~ZeroWrites`, TimerConfined
`~MidCall`. Refinement shows that Init maps to FileCopy's Init and every step
to a FileCopy step or a stutter.

**Session_proofs.** Assumptions: the empty string and `guest` are no names of
users (of passwords, for the empty string), `Root` is a directory. `IInv` is
TypeOK, ConnectedAsAsked, ListingsAsAsked and three parts that make them
inductive: Prerequisite (from the check to the command, `connected` is what
the table demands; this is why `open` never meets a connection),
Requests (while connected the last request, if for a file, is one for the
current connection, and no listing is under way) and Late (what SIGINT leaves
a loop to begin, which differs for commands with one argument). TypeCorrect,
ConnectionAsAsked, RequestsAsUser, ListingsCorrect and StopsPromptly follow,
for any number of users, directories and arguments.

**Page_proofs.** Assumption: the three bounds are natural numbers. That the
pager sees the whole file says nothing of the copy before it. `IInv` adds who
still has to close and remove what (ControlOK, Counts, SourceOpen), that the
copy is under way exactly while page waits for it (Copying), the ranges of the
copy (CopyOK), and that while it runs the first `pos` blocks, and no others,
have arrived (Received). WholeFile, Cleaned and TypeCorrect follow, for files
of any size and any number of commands. What the copy itself does is here
FileCopy's promise, which CopyByFd_proofs shows copybyfd to keep if every
write accepts something.

**TransferFile_proofs.** Assumptions: `MaxSize` is positive and `Rollback` a
natural number. That a success leaves exactly the source is a fact about many
transfers, so `IInv` says what every failure leaves behind: of a file
nobody else wrote all but the last `Rollback` blocks are the source's, and
while it is copied all before the place of the copy are, with a length that no
resume can be misled by (Sound). It adds that files have no holes (Contiguous),
where the copy stands (Places), that the destination is what stat saw unless it
was swapped (Lengths), when it can have been swapped, and that it is somebody
else's then (Swapped), that what samblah has open is there unless it was removed
meanwhile, and then is nobody's or somebody else's (Kept), and that what the user
allowed follows from the mode (Consent). Repairs,
EndsWithSource, ConsentGiven, ResumeKeepsFile and TypeCorrect follow; the two
action properties also need that only four actions write (WhoWrites).
GetGivesBack assumes `RemoteSource` and has an invariant of its own (Handles).

**TransferTree_proofs.** What keeps to the order of steps needs no assumption
that the entries form a tree: `IInv` says where control is with an empty stack
and with one (ControlInv), that no directories are open but those on the stack
(WalkInv), that what is transferred goes into the directory the innermost
activation fills, and that the parents of all these exist (PathInv), that after
SIGINT control does not come back to where a transfer begins (LateInv), and that
a question presupposes that nobody has answered for all, and an answer for one
file leaves `exist` what the command was given (AnswerInv). PathInv holds
although mkpath accepts a file for a directory: below such a file nothing can be
made, as mkpath fails there (ENOTDIR), so it is the last on the stack at most.
StopsPromptly, ParentsFirst and
AnswerForAll follow, and for get GetClosesDirectories. WholeTreeTransferred
counts, so it assumes that the entries form a tree (`OnePlace`: a path is an
entry of one directory, once, and not above itself) and has an invariant of
what is still to come. It adds to `IInv` the types (RangeInv), that readdir
stays within the directory (AtInv), that the stack leads down the tree to the
node being transferred and that what its activations have ahead is to the side
of that way (WayInv), and the account (CountInv): the number of times a file
was dealt with, plus one if something above it is still ahead, is what the
arguments so far ask for, or it was given up. That plus one is
why no file is dealt with twice for one argument, although its directory is
met by several activations. TypeCorrect follows from the same.

**Share_proofs.** Assumptions: those on the tree and its order. `Covered` is
the least set that holds the arguments of rm and what is in its members. The
invariant of the removal keeps every node and frame within it, says which
states mean that a directory is walked, and that SIGINT leads back to callers
that stop; that of the listing only that no directory is open elsewhere than
in state `read`. Each user's steps keep the other's invariant, as they share
nothing but `exists`. RemovesOnlyAsked, RemovalStops and DirectoriesClosed
follow for every tree and every interleaving. WarnsOfTheRest adds that what
is there is in a directory that is there (ExistInv), and that of all
that is covered and there, rm has warned of something above it or has yet to
come to something above it (SilentInv). The entries rm remembers of a directory
are not part of this, and cannot be, as others add to it: a directory with
something left in it cannot be removed, and this is warned of. Its
hypothesis is that nobody creates an argument anew (`Added \cap Arguments =
{}`), which rm, having removed it, could not know.

ListsTruly is an account again: `DueInv` says that what was printed of a name
and what is due never exceed what the arguments ask for (`Times`), and that
nothing is dropped without an excuse (SIGINT, a failed request above the name,
or its removal). What is due is in five places: arguments not yet examined
(Asked), entries that were examined and not printed (Gotten), entries yet to be
examined (Unread), the directory about to be opened (Entering), and the loops on
the stack whose turn has not come (Stacked). With `-r` an entry counts when it
leads to the name (`Bear`), an argument when it covers the name (`Cov`); that
the two agree when a directory is opened needs that at most one entry of a
directory leads to each name (Entered). The stack counts because a loop has
only directories left (LoopFrames), which filecmp and filecount see to
(FilesInFront); and sorting and printing keep the numbers, as an order is a
permutation (HitsSorted) and printcolumns prints every entry in exactly one
place and no more columns than fit (ColumnsComplete, PlacesCounted). That
nothing is above itself is an assumption (ShareAssumption). TypeCorrect has the
types of both users' variables.

**Move_proofs.** Assumptions: a path has a name at least and no two things are
in one place at the beginning. What a path names is found name after name
(`Walk`), so the proof begins with facts about paths shown by induction on
their length: two paths to one thing end in its name, and a rename
changes what a path names only if the path leads through what it moves or what
it replaces. Such an induction is over a set of numbers, the least
counterexample of which well-foundedness gives, and needs no operator as a
parameter. `IInv` says that no two things are in one place (Single), that the
directory of each is there unless others removed it (Housed), which states
belong to which number of arguments (LoopInv), that what others leave alone has
not moved before the first rename and keeps its name when it goes into a
directory (KeptInv), and that without a failed stat nothing but what others put
there is in the way of the second form's rename (FreeInv). LosesNothing and
TypeCorrect follow, for every share, all arguments and whatever fails.
MovesOrTells adds that what mv has moved is still where it was moved to, or
others removed it or a directory, or mv warned of the argument (MovedInv). It
rests on a fact about paths, that only one leads to each thing (OnePath), so
that no later rename touches what the path to an earlier target passes
through. Its hypothesis (`Independent`) is that no argument beside the last is
given twice, or is below the last one; of one argument and a target, the form
that succeeds (see 4), it requires nothing. MCMove's lists satisfy it. Without
it the property is false: with `mv n n f`, where others put a directory in the
place of f and another file in that of n, the second file replaces the first
as f/n.

**Terminal_proofs.** For every capacity, list_add, list_prepend and
list_replace do to the vector what they should do to the sequence it stands
for, with room for the NULL at the end (AddHolds, PrependHolds,
ReplaceHolds); so the words tokenize makes of any text are in such a list
(WordsInAList). ListsAlwaysHold is about all steps of Line, under
LineAssumption and CompletionAssumption (words are sequences of characters, the
names to complete are finitely many). Its invariant `ListInv` says in addition
that the answer to readline is a list that fits, and that the word to replace is
behind the command. OptionsAlwaysAsGiven compares the variables of egetopt, one
call after the other, with `Reading`, a recursive function on the words. That
such a function exists is shown first, by induction from the last word
backwards; then `OptInv` says that what was returned so far, followed by what
the words from `eoptind` on mean, is what all the words mean, and one lemma for
each kind of call (the next letter, a letter with its argument, the end of the
options) that the call keeps this, with nothing assumed of what the
command before left in the static variables. PathsAlwaysEvaluated is about
evalpath, under PathAssumption: paths of users are sequences of components, of
which `''`, `.` and `..` are some, the empty one has length 0, and the buffer
has room for a slash. The rewriting in place (`//` and `/./` go, then one
`/../` after the other, then what is left at the end) is compared with `Walk`,
one component after the other. What is recursive there is shown to be a fold
(FoldIs, IsFold), so that one can induct on the sequence; `Form` says which
paths are left when the dots and empty names are gone, UpOnceIs that removing
one `/../` keeps the form and the directory meant and makes the path shorter,
hence AllUpIs that none is left. That the result fits, which smb_chdir asserts,
follows as no step makes the directory longer than its component is
(StepNames, WayShort). With RewriteIs, `PathInv`, which adds to PathsEvaluated
only that the place and the target are sequences of names, is inductive.
LinesReadAsQuoted is about lines of any length, under the same assumptions
(characters are numbers, names sequences of them). The tokenizer and the meaning
of a line have nothing in common but the characters: `WordsMeant` counts quotes,
the tokenizer keeps flags. PairIs shows which quotes make a pair when one goes
through a row of them two at a time; `Scans` says where the tokenizer may stand
(never between the quotes of a pair), that `inquote` is the parity of the
quotes before, that the tokens are the words begun before it but for the one it
is in, and that `token` is what the characters of that one mean so far; each step
keeps this (AdvanceScans), and at the end it is the claim (TokensAsMeant).
isquoted has the same kind of invariant (OnTheWay), from which InsideIs reads off
its answer. That the line consists of characters (`LineInv`) holds after
completion too, as what it writes is the beginning of a name, quoted; for this
one has to know that a sorted set has a first and a last element, that is, that
strcmp puts strings in a row (DifferOrders, RankExists).
The theorems about Screen need no run: for every width of the terminal and every name the
progress line is as wide as the terminal or its buffer, no field has a negative
width, the stars fit the bar, an ETA below a day has two digits on both sides
(LineFits, FieldsFit, StarsFit, EtaFits).

PatternsExpanded is about all steps of Glob, whose frames are the recursion of
tokenmatch2, under GlobAssumption. `GlobInv` says, as long as no call has failed,
that the tokens before some place are what the tokens as typed stand for and
those behind it are as typed (Replaced), and that `pos` is at that place or at the
last file just put in. During a walk `WalkInv` holds: the paths in hand agree
with the pattern as far as they go and are continued at the right component
(CallInv, StackInv), and every match has been found, or is below the path about
to be examined, or is below an entry that a directory still has (FoundInv). That
nothing is lost when a directory is opened needs that what is above a file is
there (AboveIs, by induction on the way up). The hypothesis (`Plainly`) is
where the deviations of smbglob begin (see 4), for each token with a wildcard:
at most one component is behind the first wildcard (Shallow), as those that were
cut once stay cut (CutInv); its other components need no unescaping (Unquoted),
as none is done; and its last match, which is globbed again, is no pattern and
the same after unescape (Settled). Tokens without wildcards may be anything. The
lines of `glob_lines` satisfy all three, those of `MCGlob_deep`,
`MCGlob_backslash` and `MCGlob_star` miss one. The order of the matches is that of
strcmp, again by DifferOrders and RankExists.

**Only model-checked.** Liveness (Returns, Terminates), which needs ENABLED.
ReadsBack relates completion, quote, the tokenizer and fnmatch, each a recursive
function that would have to be replaced by its meaning, with an induction of
its own. The type invariant of Glob is in no listed run; TLC finds it true with
the same constants.

## 6. What is not modelled

Wording of output, dates, the units of sizes, the average printcompleted
prints, and the line for devices; displaymatches, which only prints;
readline, history and shell commands; the configuration file (parse_config)
and the table of variables, whose values are inputs; aliases, which are not
built; the text of URIs; strings (`str.c`), which grow as lists do and are
sequences here; lengths of buffers and command lines except where Path, Screen
and Lists have them (that something is too long is one of the failures where it
changes control); symbolic links; local commands that change nothing but the
local process; memory that cannot be allocated, for which xmalloc exits. A
path is one value in Session, a sequence of components in Path and Move, a node
of a tree in the walks, and a sequence of names in Glob, without the leading
slash of absolute patterns and the one that smbglob puts behind directories.
TransferTree leaves out what others do to the destination of a tree while it is
transferred (TransferFile has this for one file), and that others write into a
file that exists. That readdir fails cannot be told from the end of a directory
(`smbwrap.c:362-367`): the walks of RemoveTree, ListTree and Glob may end early.

## 7. What could follow

1. A composition of Glob with RemoveTree: which files a pattern with two
   wildcards removes.
2. A proof of ReadsBack, on top of LinesReadAsQuoted: what the tokenizer makes
   of a quoted name.
3. parse_config and setvariable on top of Tokens.
