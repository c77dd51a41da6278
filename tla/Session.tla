------------------------------ MODULE Session ------------------------------
(***************************************************************************)
(* The life of the program: main, do_init, the command loop (interface.c), *)
(* the commands (cmds.c) and the connection they share (smbwrap.c).        *)
(* libsmbclient keeps no connection for samblah: smb_user, smb_pass, ...   *)
(* and `connected' ARE the connection, every request names them in its URI *)
(* and libsmbclient asks auth_callback as whom to authenticate.            *)
(* A command that works on remote files is a loop over its arguments, each *)
(* of which sends a request; what it does with a file is the subject of    *)
(* TransferTree, RemoveTree and Page.  (X_Fault: see CopyByFd.)            *)
(***************************************************************************)
EXTENDS Naturals

CONSTANTS
    Users, Passes,  \* what follows -u and -p, or is typed after -P
    Places,         \* pairs of a host and a share
    Dirs,           \* remote directories
    Root,           \* the one a share is opened at
    MaxArgs         \* bound: arguments of one command

Empty == "empty"    \* the empty string, and an option that is not given
Guest == "guest"

ASSUME SessionAssumption ==
    /\ Empty \notin Users \cup Passes /\ Guest \notin Users
    /\ Root \in Dirs /\ MaxArgs \in Nat

VARIABLES
    pc,           \* "start", "prompt", "read", "check", "glob", "run", "arg" or "exited"
    cmd,          \* the command being carried out
    args,         \* how many of its arguments are left
    intr,         \* int_signal
    done,         \* the program is to stop
    connected,    \* connected, of smbwrap.c
    smb,          \* smb_user, smb_pass, smb_host and smb_share, smb_path
    list,         \* list_user, list_pass
    listing,      \* doing_listing
    sent,         \* the last request: its kind, the credentials in its URI
                  \* and those auth_callback gives for it
    session,      \* history: what the last successful `open' and `cd' asked for
    wanted,       \* history: the credentials the last listing was asked to use
    late          \* history: arguments begun since SIGINT, up to 2

loop == <<pc, cmd, args, done>>
conn == <<connected, smb>>
lst  == <<list, listing>>
hist == <<session, wanted, late>>
vars == <<loop, intr, conn, lst, sent, hist>>

Cred(u, p) == [user |-> u, pass |-> p]
NoCred     == Cred(Empty, Empty)
OptUser    == Users \cup {Empty}
OptPass    == Passes \cup {Empty}
Creds      == [user : OptUser \cup {Guest}, pass : OptPass]
Kinds      == {"none", "file", "shares", "hosts", "workgroups"}

Connection(u, p, h, d) == [user |-> u, pass |-> p, place |-> h, path |-> d]
CredOf(c)  == Cred(c.user, c.pass)

(***************************************************************************)
(* The commands.  "remote" stands for get, mkdir, rm, rmdir, and for ls    *)
(* and mv of several files: loops over arguments (the look mv takes at its *)
(* last one beforehand is left out).  "single" stands for page, get with   *)
(* -o, ls of one directory, the default being `.', and mv of one file;     *)
(* "local" for help, lcd, lpwd, lumask, set, umask and version, which      *)
(* change nothing here.  pwd and chmod, which change nothing but need a    *)
(* connection, are like "remote" without arguments.                        *)
(***************************************************************************)
MustConn    == {"cd", "close", "remote", "single", "put"}
MustNotConn == {"open"}
MayConn     == {"local", "lsshares", "lshosts", "lsworkgroups", "quit"}
Commands    == MustConn \cup MustNotConn \cup MayConn

\* do_line returns.
Back == pc' = "prompt" /\ cmd' = "none" /\ args' = 0

-----------------------------------------------------------------------------
\* makeuri: without a user the password is left out as well.
Uri(c) == IF c.user = Empty THEN NoCred ELSE CredOf(c)

\* auth_callback: which credentials libsmbclient is told to use.
Auth(lg, l, s) ==
    LET c == IF lg THEN l ELSE CredOf(s) IN
    IF c.user = Empty THEN [c EXCEPT !.user = Guest] ELSE c

Request(kind, uri, lg, l, s) == [kind |-> kind, uri |-> uri, auth |-> Auth(lg, l, s)]

\* A request for a file or directory, sent while the connection is s.
FileRequest(s) == sent' = Request("file", Uri(s), listing, list, s)

(***************************************************************************)
(* smb_connect: unless the arguments are invalid the buffers are filled    *)
(* before it is known whether the directory exists.  A password with an    *)
(* empty user is valid (validconn).                                        *)
(***************************************************************************)
Connect(u, p, h, d) ==
    LET to == Connection(u, p, h, Root) IN
    \/ UNCHANGED <<conn, sent, session>>      \* EINVAL
    \/ /\ FileRequest(to)
       /\ connected' = TRUE /\ smb' = [to EXCEPT !.path = d]
       /\ session' = [to EXCEPT !.path = d]
    \/ /\ smb' = to /\ UNCHANGED <<connected, session>>
       /\ FileRequest(to) \/ UNCHANGED sent

\* do_init: connect if the command line names a share; failure is final.
Start ==
    /\ pc = "start"
    /\ \/ pc' = "prompt" /\ UNCHANGED <<conn, sent, session>>
       \/ /\ \E u \in OptUser, p \in OptPass, h \in Places, d \in Dirs : Connect(u, p, h, d)
          /\ pc' = IF connected' THEN "prompt" ELSE "exited"
       \/ pc' = "exited" /\ UNCHANGED <<conn, sent, session>>   \* usage, bad configuration
    /\ UNCHANGED <<cmd, args, done, intr, lst, wanted, late>>

-----------------------------------------------------------------------------
\* do_line, up to its call of readline.
Prompt ==
    /\ pc = "prompt" /\ ~done
    /\ pc' = "read" /\ intr' = FALSE /\ late' = 0
    /\ UNCHANGED <<cmd, args, done, conn, lst, sent, session, wanted>>

\* `while (!done) do_line();' ends and main exits.
Leave ==
    /\ pc = "prompt" /\ done /\ pc' = "exited"
    /\ UNCHANGED <<cmd, args, done, intr, conn, lst, sent, hist>>

EndOfInput ==
    /\ pc = "read" /\ done' = TRUE /\ pc' = "prompt"
    /\ UNCHANGED <<cmd, args, intr, conn, lst, sent, hist>>

\* An empty line, a shell command, unbalanced quotes or an unknown command.
OtherLine ==
    /\ pc = "read" /\ pc' = "prompt"
    /\ UNCHANGED <<cmd, args, done, intr, conn, lst, sent, hist>>

EnterCommand ==
    /\ pc = "read" /\ pc' = "check"
    /\ cmd' \in Commands
    /\ UNCHANGED <<args, done, intr, conn, lst, sent, hist>>

Allowed_Fault(c) == c \in MustConn => connected
\* do_command: is our connected status correct for this command?
Allowed(c) == (c \in MustConn => connected) /\ (c \in MustNotConn => ~connected)

CheckCommand ==
    /\ pc = "check"
    /\ IF Allowed(cmd) THEN pc' = "glob" /\ UNCHANGED <<cmd, args>> ELSE Back
    /\ UNCHANGED <<done, intr, conn, lst, sent, hist>>

RemoteGlobbing == cmd \in MustConn \ {"put"}

\* smbglob: patterns are replaced by their matches, in number at most MaxArgs.
\* SIGINT stops it, silently, if there is any pattern.
Glob ==
    /\ pc = "glob"
    /\ \/ pc' = "run" /\ args' \in 0 .. MaxArgs /\ UNCHANGED cmd
       \/ intr /\ Back
    /\ \/ UNCHANGED sent
       \/ RemoteGlobbing /\ FileRequest(smb)
    /\ UNCHANGED <<done, intr, conn, lst, hist>>

-----------------------------------------------------------------------------
Runs(c) == pc = "run" /\ cmd = c

\* cmd_open; askpass may fail and options may be wrong.
Open ==
    /\ Runs("open") /\ Back
    /\ \/ \E u \in OptUser, p \in OptPass, h \in Places, d \in Dirs : Connect(u, p, h, d)
       \/ UNCHANGED <<conn, sent, session>>
    /\ UNCHANGED <<done, intr, lst, wanted, late>>

Close ==
    /\ Runs("close") /\ Back
    /\ connected' = FALSE
    /\ UNCHANGED <<done, intr, smb, lst, sent, hist>>

Quit ==
    /\ Runs("quit") /\ Back
    /\ connected' = FALSE /\ done' = TRUE
    /\ UNCHANGED <<intr, smb, lst, sent, hist>>

\* smb_chdir: the path changes only if the directory can be opened.
Cd ==
    /\ Runs("cd") /\ Back
    /\ \/ /\ FileRequest(smb)
          /\ \/ \E d \in Dirs : smb' = [smb EXCEPT !.path = d]
                                /\ session' = [session EXCEPT !.path = d]
             \/ UNCHANGED <<smb, session>>
       \/ UNCHANGED <<smb, sent, session>>      \* wrong arguments, path too long
    /\ UNCHANGED <<done, intr, connected, lst, wanted, late>>

Local ==
    /\ Runs("local") /\ Back
    /\ UNCHANGED <<done, intr, conn, lst, sent, hist>>

\* Wrong options or number of arguments, or no password: the listing is not made.
NoListing ==
    /\ pc = "run" /\ cmd \in {"lsshares", "lshosts"} /\ Back
    /\ UNCHANGED <<done, intr, conn, lst, sent, hist>>

ListingEnds_Fault(ok) == ~ok
\* listuri resets doing_listing on success and at its label `error'.
ListingEnds(ok) == FALSE

\* listuri, given the list_user and list_pass its caller leaves.
Listing(kind, uri, l) ==
    /\ Back /\ list' = l
    /\ sent' = Request(kind, uri, TRUE, l, smb)
    /\ \E ok \in BOOLEAN : listing' = ListingEnds(ok)
    /\ UNCHANGED <<done, intr, conn, session, late>>

\* smb_shares puts smb_user and smb_pass in its URI, not user and pass.
SharesUri(u, p) ==
    IF u # Empty /\ smb.user # Empty
    THEN Cred(smb.user, IF p # Empty THEN smb.pass ELSE Empty)
    ELSE NoCred

LsShares ==
    /\ Runs("lsshares")
    /\ \E u \in OptUser, p \in OptPass :
          /\ u = Empty => p = Empty
          /\ Listing("shares", SharesUri(u, p), Cred(u, p))
          /\ wanted' = Cred(u, p)

HostCred_Fault == list
\* smb_hosts: "clear username and password".
HostCred == NoCred

LsHosts ==
    /\ Runs("lshosts") /\ Listing("hosts", NoCred, HostCred) /\ wanted' = NoCred

\* smb_workgroups leaves list_user and list_pass as they are.
LsWorkgroups ==
    /\ Runs("lsworkgroups") /\ Listing("workgroups", NoCred, list) /\ wanted' = NoCred

-----------------------------------------------------------------------------
MoreArgs_Fault == args > 0
\* `while (*argv != NULL && !int_signal)'; "exactly one argument expected".
MoreArgs == IF cmd = "single" THEN args = 1 ELSE args > 0 /\ ~intr

NextArg ==
    /\ pc = "run" /\ cmd \in {"remote", "single", "put"}
    /\ IF MoreArgs THEN pc' = "arg" /\ UNCHANGED <<cmd, args>> ELSE Back
    /\ UNCHANGED <<done, intr, conn, lst, sent, hist>>

AfterArg == args - 1

\* One argument is dealt with, in one request or several.
DoArg ==
    /\ pc = "arg" /\ pc' = "run" /\ args' = AfterArg
    /\ FileRequest(smb)
    /\ late' = IF intr /\ late < 2 THEN late + 1 ELSE late
    /\ UNCHANGED <<cmd, done, intr, conn, lst, session, wanted>>

\* int_handler, which readline calls as well; it is set up by do_interface.
Interrupt ==
    /\ pc \notin {"start", "exited"} /\ ~intr /\ intr' = TRUE
    /\ UNCHANGED <<loop, conn, lst, sent, hist>>

-----------------------------------------------------------------------------
Init ==
    /\ pc = "start" /\ cmd = "none" /\ args = 0 /\ intr = FALSE /\ done = FALSE
    /\ connected = FALSE
    /\ \E h \in Places : smb = Connection(Empty, Empty, h, Root)
    /\ list = NoCred /\ listing = FALSE
    /\ sent = [kind |-> "none", uri |-> NoCred, auth |-> NoCred]
    /\ session = smb /\ wanted = NoCred /\ late = 0

Command ==
    \/ Open \/ Close \/ Quit \/ Cd \/ Local \/ NoListing
    \/ LsShares \/ LsHosts \/ LsWorkgroups \/ NextArg \/ DoArg

Program == Start \/ Prompt \/ Leave \/ CheckCommand \/ Glob \/ Command
User    == EndOfInput \/ OtherLine \/ EnterCommand \/ Interrupt

Next == Program \/ User

\* The program runs on; nothing makes the user type.
Spec == Init /\ [][Next]_vars /\ WF_vars(Program)

-----------------------------------------------------------------------------
Connections == [user : OptUser, pass : OptPass, place : Places, path : Dirs]

TypeOK ==
    /\ pc \in {"start", "prompt", "read", "check", "glob", "run", "arg", "exited"}
    /\ cmd \in Commands \cup {"none"} /\ args \in 0 .. MaxArgs
    /\ intr \in BOOLEAN /\ done \in BOOLEAN /\ connected \in BOOLEAN
    /\ smb \in Connections /\ session \in Connections
    /\ list \in [user : OptUser, pass : OptPass] /\ listing \in BOOLEAN
    /\ sent \in [kind : Kinds, uri : Creds, auth : Creds]
    /\ wanted \in [user : OptUser, pass : OptPass] /\ late \in 0 .. 2

(***************************************************************************)
(* While connected, the user, share and directory are those of the last    *)
(* `open' and `cd' that succeeded: an attempt that failed leaves nothing   *)
(* behind.  smb_connect fills its buffers before it knows, so this rests   *)
(* on "Must only be called when `connected' is false" (smbwrap.c:83),      *)
(* which only the table of commands upholds (cmds.c:116, interface.c:173). *)
(***************************************************************************)
ConnectedAsAsked == connected => smb = session

(***************************************************************************)
(* Nothing but `open' sends a request for a file without a connection, and *)
(* while there is one files are asked for as its user, also when a listing *)
(* with other credentials came before and failed (doing_listing,           *)
(* smbwrap.c:505-537, 561-567).                                            *)
(***************************************************************************)
FilesAsUser ==
    /\ pc = "arg" \/ (pc = "glob" /\ RemoteGlobbing) => connected
    /\ connected => /\ sent.kind \in {"shares", "hosts", "workgroups"}
                       \/ sent = Request("file", Uri(session), FALSE, NoCred, session)
                    /\ ~listing

(***************************************************************************)
(* lsshares authenticates as the user it was given and lshosts as guest,   *)
(* whoever is connected and whatever was listed before                     *)
(* (smbwrap.c:437-439, 479-481).                                           *)
(***************************************************************************)
ListingsAsAsked ==
    sent.kind \in {"shares", "hosts"} =>
       sent.auth = Auth(TRUE, wanted, session)

\* After SIGINT a command begins at most the argument it was about to
\* (cmds.c:609, 912, 938).
StopsAtInterrupt == late <= 1

(***************************************************************************)
CommandsEnd == pc = "check" ~> pc = "prompt"

(***************************************************************************)
(* "-u user  use given username" (cmds.c:98): the URI of a listing names   *)
(* no user but the one given.                                              *)
(***************************************************************************)
SharesAsGiven ==
    sent.kind = "shares" => sent.uri \in {NoCred, wanted, [wanted EXCEPT !.pass = Empty]}

(***************************************************************************)
(* "on command `quit' or a ctrl+c, this function returns" (main.c:22-23):  *)
(* a line is not carried out once ctrl+c was typed on it.                  *)
(***************************************************************************)
CtrlCReturns == [][~(pc = "read" /\ intr /\ pc' = "check")]_vars
=============================================================================
