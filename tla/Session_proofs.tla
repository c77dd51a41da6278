--------------------------- MODULE Session_proofs ---------------------------
(***************************************************************************)
(* Theorems about Session, for any users, passwords, shares and number of  *)
(* arguments.                                                              *)
(***************************************************************************)
EXTENDS Session, TLAPS

Loops == {"remote", "single", "put"}

(***************************************************************************)
(* The inductive invariant, in parts.  What do_command checked still holds *)
(* while the command runs; only then is it safe that smb_connect fills its *)
(* buffers early.                                                          *)
(***************************************************************************)
Prerequisite ==
    /\ pc = "start" => ~connected
    /\ pc \in {"glob", "run", "arg"} =>
          /\ cmd \in MustConn => connected
          /\ cmd \in MustNotConn => ~connected
    /\ pc = "arg" => cmd \in Loops /\ args > 0

\* Every request so far was made as it should.
Requests ==
    /\ ~listing
    /\ connected /\ sent.kind \notin {"shares", "hosts", "workgroups"} =>
          sent = Request("file", Uri(session), FALSE, NoCred, session)

\* Where the arguments begun since SIGINT can be counted.
Late ==
    /\ late <= 1
    /\ pc \in {"read", "check", "glob", "arg"} => late = 0
    /\ pc = "arg" /\ cmd = "single" => args = 1
    /\ pc = "run" /\ late = 1 => intr /\ (cmd = "single" => args = 0)

IInv ==
    /\ TypeOK /\ ConnectedAsAsked /\ ListingsAsAsked
    /\ Prerequisite /\ Requests /\ Late

-----------------------------------------------------------------------------
(* Initially. *)

LEMMA InitIInv == Init => IInv
<1> SUFFICES ASSUME Init PROVE IInv
  OBVIOUS
<1> USE SessionAssumption DEF Init
<1>1. smb \in Connections /\ session \in Connections
  BY DEF Connections, Connection, OptUser, OptPass
<1>2. NoCred \in [user : OptUser, pass : OptPass] /\ NoCred \in Creds
  BY DEF NoCred, Cred, Creds, OptUser, OptPass
<1>3. TypeOK
  <2>1. sent \in [kind : Kinds, uri : Creds, auth : Creds]
    BY <1>2 DEF Kinds
  <2>2. args \in 0 .. MaxArgs /\ late \in 0 .. 2
    OBVIOUS
  <2>3. pc = "start" /\ cmd \in Commands \cup {"none"}
    OBVIOUS
  <2> QED  BY <1>1, <1>2, <2>1, <2>2, <2>3 DEF TypeOK
<1>4. ConnectedAsAsked /\ ListingsAsAsked
  BY DEF ConnectedAsAsked, ListingsAsAsked
<1>5. Prerequisite
  BY DEF Prerequisite
<1>6. Requests
  BY DEF Requests
<1>7. Late
  BY DEF Late
<1> QED  BY <1>3, <1>4, <1>5, <1>6, <1>7 DEF IInv

-----------------------------------------------------------------------------
(* The operators the requests are built from. *)

LEMMA CredType ==
    ASSUME NEW u \in OptUser, NEW p \in OptPass
    PROVE  Cred(u, p) \in [user : OptUser, pass : OptPass]
BY DEF Cred

LEMMA RequestType ==
    ASSUME NEW k \in Kinds, NEW c \in Creds, NEW lg \in BOOLEAN,
           NEW l \in [user : OptUser, pass : OptPass], NEW s \in Connections
    PROVE  Request(k, c, lg, l, s) \in [kind : Kinds, uri : Creds, auth : Creds]
<1>1. CredOf(s) \in [user : OptUser, pass : OptPass]
  BY DEF Connections, CredOf, Cred
<1>2. Auth(lg, l, s) \in Creds
  BY <1>1 DEF Auth, Creds
<1> QED  BY <1>2 DEF Request

LEMMA FileRequestType ==
    ASSUME TypeOK, NEW s \in Connections, FileRequest(s)
    PROVE  sent' \in [kind : Kinds, uri : Creds, auth : Creds]
<1>1. Uri(s) \in Creds
  BY DEF Uri, CredOf, Cred, NoCred, Creds, Connections, OptUser, OptPass
<1> QED  BY <1>1, RequestType DEF FileRequest, TypeOK, Kinds

\* Without a listing going on, a file is asked for as the connection's user.
LEMMA FileRequestAs ==
    ASSUME NEW s, ~listing, FileRequest(s)
    PROVE  /\ sent' = Request("file", Uri(s), FALSE, NoCred, s)
           /\ sent'.kind = "file"
<1>1. Auth(listing, list, s) = Auth(FALSE, NoCred, s)
  BY DEF Auth
<1> QED  BY <1>1 DEF FileRequest, Request

\* The three ways smb_connect ends.
LEMMA ConnectEnds ==
    ASSUME TypeOK, Requests, NEW u \in OptUser, NEW p \in OptPass,
           NEW h \in Places, NEW d \in Dirs, Connect(u, p, h, d)
    PROVE  /\ smb' \in Connections /\ session' \in Connections
           /\ connected' \in BOOLEAN
           /\ sent' \in [kind : Kinds, uri : Creds, auth : Creds]
           /\ \/ UNCHANGED <<connected, session>> /\ sent' = sent
              \/ UNCHANGED <<connected, session>> /\ sent'.kind = "file"
              \/ /\ connected' /\ smb' = session'
                 /\ sent' = Request("file", Uri(session'), FALSE, NoCred, session')
                 /\ sent'.kind = "file"
<1> DEFINE to == Connection(u, p, h, Root)
<1> USE DEF TypeOK, conn
<1>1. to \in Connections /\ [to EXCEPT !.path = d] \in Connections
  BY SessionAssumption DEF Connections, Connection
<1>2. CASE UNCHANGED <<conn, sent, session>>
  BY <1>2
<1>3. CASE FileRequest(to) /\ connected' = TRUE
           /\ smb' = [to EXCEPT !.path = d] /\ session' = [to EXCEPT !.path = d]
  <2>1. sent' = Request("file", Uri(to), FALSE, NoCred, to) /\ sent'.kind = "file"
    BY <1>3, FileRequestAs DEF Requests
  <2>2. CredOf(to) = CredOf(session') /\ to.user = session'.user
    BY <1>3 DEF Connection, CredOf
  <2>3. Uri(to) = Uri(session') /\ Auth(FALSE, NoCred, to) = Auth(FALSE, NoCred, session')
    BY <2>2 DEF Uri, Auth
  <2>4. Request("file", Uri(to), FALSE, NoCred, to)
           = Request("file", Uri(session'), FALSE, NoCred, session')
    BY <2>3 DEF Request
  <2>5. sent' \in [kind : Kinds, uri : Creds, auth : Creds]
    BY <1>1, <1>3, FileRequestType
  <2> QED  BY <1>1, <1>3, <2>1, <2>4, <2>5
<1>4. CASE smb' = to /\ UNCHANGED <<connected, session>>
           /\ (FileRequest(to) \/ UNCHANGED sent)
  <2>1. CASE UNCHANGED sent
    BY <1>1, <1>4, <2>1
  <2>2. CASE FileRequest(to)
    <3>1. sent'.kind = "file"
      BY <2>2, FileRequestAs DEF Requests
    <3>2. sent' \in [kind : Kinds, uri : Creds, auth : Creds]
      BY <1>1, <2>2, FileRequestType
    <3> QED  BY <1>1, <1>4, <3>1, <3>2
  <2> QED  BY <1>4, <2>1, <2>2
<1> QED  BY <1>2, <1>3, <1>4 DEF Connect

-----------------------------------------------------------------------------
(* Every step keeps every part. *)

Quiet == Prompt \/ Leave \/ EndOfInput \/ OtherLine \/ Interrupt \/ Local \/ NoListing

\* The four variables a request depends on, and the request.
LEMMA ConnTypeStep ==
    ASSUME TypeOK, Requests, Next
    PROVE  /\ smb' \in Connections /\ session' \in Connections
           /\ connected' \in BOOLEAN
           /\ sent' \in [kind : Kinds, uri : Creds, auth : Creds]
<1> USE DEF TypeOK, conn, hist
<1>1. CASE Start
  <2>1. CASE UNCHANGED <<conn, sent, session>>
    BY <2>1
  <2>2. CASE \E u \in OptUser, p \in OptPass, h \in Places, d \in Dirs : Connect(u, p, h, d)
    BY <2>2, ConnectEnds
  <2> QED  BY <1>1, <2>1, <2>2 DEF Start
<1>2. CASE Open
  <2>1. CASE UNCHANGED <<conn, sent, session>>
    BY <2>1
  <2>2. CASE \E u \in OptUser, p \in OptPass, h \in Places, d \in Dirs : Connect(u, p, h, d)
    BY <2>2, ConnectEnds
  <2> QED  BY <1>2, <2>1, <2>2 DEF Open
<1>3. CASE Cd
  <2>1. CASE FileRequest(smb)
    <3>1. sent' \in [kind : Kinds, uri : Creds, auth : Creds]
      BY <2>1, FileRequestType
    <3>2. smb' \in Connections /\ session' \in Connections
      BY <1>3 DEF Cd, Connections
    <3> QED  BY <1>3, <3>1, <3>2 DEF Cd
  <2>2. CASE UNCHANGED <<smb, sent, session>>
    BY <1>3, <2>2 DEF Cd
  <2> QED  BY <1>3, <2>1, <2>2 DEF Cd
<1>4. CASE Glob \/ DoArg
  <2>1. CASE FileRequest(smb)
    BY <1>4, <2>1, FileRequestType DEF Glob, DoArg
  <2>2. CASE UNCHANGED sent
    BY <1>4, <2>2 DEF Glob, DoArg
  <2> QED  BY <1>4, <2>1, <2>2 DEF Glob, DoArg
<1>5. CASE LsShares
  <2>1. PICK u \in OptUser, p \in OptPass :
           Listing("shares", SharesUri(u, p), Cred(u, p))
    BY <1>5 DEF LsShares
  <2>2. SharesUri(u, p) \in Creds
    BY DEF SharesUri, Connections, NoCred, Cred, Creds, OptUser, OptPass
  <2>3. sent' \in [kind : Kinds, uri : Creds, auth : Creds]
    BY <2>1, <2>2, CredType, RequestType DEF Listing, Kinds
  <2> QED  BY <2>1, <2>3 DEF Listing
<1>6. CASE LsHosts \/ LsWorkgroups
  <2>1. NoCred \in Creds /\ HostCred \in [user : OptUser, pass : OptPass]
    BY DEF HostCred, NoCred, Cred, Creds, OptUser, OptPass
  <2>2. PICK k \in Kinds, l \in [user : OptUser, pass : OptPass] : Listing(k, NoCred, l)
    BY <1>6, <2>1 DEF LsHosts, LsWorkgroups, Kinds
  <2>3. sent' \in [kind : Kinds, uri : Creds, auth : Creds]
    BY <2>1, <2>2, RequestType DEF Listing
  <2> QED  BY <2>2, <2>3 DEF Listing
<1>7. CASE Quiet \/ EnterCommand \/ CheckCommand \/ Close \/ Quit \/ NextArg
  BY <1>7 DEF Quiet, Prompt, Leave, EndOfInput, OtherLine, Interrupt, Local,
              NoListing, EnterCommand, CheckCommand, Close, Quit, NextArg
<1> QED
  BY <1>1, <1>2, <1>3, <1>4, <1>5, <1>6, <1>7
     DEF Next, Program, User, Command, Quiet

\* The rest of the state.
LEMMA TypeStep ==
    ASSUME TypeOK, Prerequisite, Requests, Next
    PROVE  TypeOK'
<1> USE DEF TypeOK, Back
<1>1. /\ pc' \in {"start", "prompt", "read", "check", "glob", "run", "arg", "exited"}
      /\ cmd' \in Commands \cup {"none"} /\ args' \in 0 .. MaxArgs
  <2>1. CASE Start
    BY <2>1 DEF Start
  <2>2. CASE Quiet
    BY <2>2, SessionAssumption DEF Quiet, Prompt, Leave, EndOfInput, OtherLine,
              Interrupt, loop, Local, NoListing
  <2>3. CASE EnterCommand
    BY <2>3 DEF EnterCommand
  <2>4. CASE CheckCommand \/ Glob
    BY <2>4, SessionAssumption DEF CheckCommand, Glob
  <2>5. CASE Open \/ Close \/ Quit \/ Cd
    BY <2>5, SessionAssumption DEF Open, Close, Quit, Cd
  <2>6. CASE LsShares \/ LsHosts \/ LsWorkgroups
    <3>1. Back
      BY <2>6, Zenon DEF LsShares, LsHosts, LsWorkgroups, Listing
    <3> QED  BY <3>1, SessionAssumption
  <2>7. CASE NextArg
    BY <2>7, SessionAssumption DEF NextArg
  <2>8. CASE DoArg
    BY <2>8, SessionAssumption DEF DoArg, AfterArg, Prerequisite
  <2> QED
    BY <2>1, <2>2, <2>3, <2>4, <2>5, <2>6, <2>7, <2>8
       DEF Next, Program, User, Command, Quiet
<1>2. intr' \in BOOLEAN /\ done' \in BOOLEAN
  BY DEF Next, Program, User, Command, Start, Prompt, Leave, EndOfInput,
         OtherLine, Interrupt, loop, Local, NoListing, EnterCommand,
         CheckCommand, Glob, Open, Close, Quit, Cd, LsShares, LsHosts,
         LsWorkgroups, Listing, NextArg, DoArg
<1>3. late' \in 0 .. 2
  <2>1. CASE DoArg
    BY <2>1 DEF DoArg
  <2>2. CASE Prompt
    BY <2>2 DEF Prompt
  <2>3. CASE ~DoArg /\ ~Prompt
    <3>1. UNCHANGED late
      BY <2>3, Zenon DEF Next, Program, User, Command, Start, Leave, EndOfInput,
             OtherLine, Interrupt, hist, Local, NoListing, EnterCommand,
             CheckCommand, Glob, Open, Close, Quit, Cd, LsShares, LsHosts,
             LsWorkgroups, Listing, NextArg
    <3> QED  BY <3>1
  <2> QED  BY <2>1, <2>2, <2>3
<1>4. /\ list' \in [user : OptUser, pass : OptPass] /\ listing' \in BOOLEAN
      /\ wanted' \in [user : OptUser, pass : OptPass]
  <2>1. NoCred \in [user : OptUser, pass : OptPass]
    BY DEF NoCred, Cred, OptUser, OptPass
  <2>2. CASE LsShares
    <3>1. PICK u \in OptUser, p \in OptPass :
             list' = Cred(u, p) /\ listing' = FALSE /\ wanted' = Cred(u, p)
      BY <2>2 DEF LsShares, Listing, ListingEnds
    <3> QED  BY <3>1, CredType
  <2>3. CASE LsHosts \/ LsWorkgroups
    BY <2>1, <2>3 DEF LsHosts, LsWorkgroups, Listing, ListingEnds, HostCred
  <2>4. CASE ~(LsShares \/ LsHosts \/ LsWorkgroups)
    <3>1. UNCHANGED <<lst, wanted>>
      BY <2>4 DEF Next, Program, User, Command, Start, Prompt, Leave, EndOfInput,
             OtherLine, Interrupt, hist, Local, NoListing, EnterCommand,
             CheckCommand, Glob, Open, Close, Quit, Cd, NextArg, DoArg
    <3> QED  BY <3>1 DEF lst
  <2> QED  BY <2>2, <2>3, <2>4
<1> QED  BY <1>1, <1>2, <1>3, <1>4, ConnTypeStep

LEMMA PrerequisiteStep ==
    ASSUME TypeOK, Prerequisite, Next
    PROVE  Prerequisite'
<1> USE DEF Prerequisite, Back, conn
<1>1. CASE Start \/ Open \/ LsShares \/ LsHosts \/ LsWorkgroups \/ Close \/ Quit \/ Cd
  <2>1. pc' \in {"prompt", "exited"}
    BY <1>1 DEF Start, Open, LsShares, LsHosts, LsWorkgroups, Listing, Close, Quit, Cd
  <2> QED  BY <2>1
<1>2. CASE Prompt \/ Leave \/ EndOfInput \/ OtherLine \/ EnterCommand \/ Local \/ NoListing
  <2>1. pc' \in {"prompt", "read", "check", "exited"}
    BY <1>2 DEF Prompt, Leave, EndOfInput, OtherLine, EnterCommand, Local, NoListing
  <2> QED  BY <2>1
<1>3. CASE CheckCommand
  BY <1>3 DEF CheckCommand, Allowed
<1>4. CASE Glob
  BY <1>4 DEF Glob
<1>5. CASE NextArg
  BY <1>5, SessionAssumption DEF NextArg, Loops, MoreArgs, TypeOK
<1>6. CASE DoArg
  BY <1>6 DEF DoArg
<1>7. CASE Interrupt
  BY <1>7 DEF Interrupt, loop
<1> QED
  BY <1>1, <1>2, <1>3, <1>4, <1>5, <1>6, <1>7 DEF Next, Program, User, Command

(***************************************************************************)
(* smb_connect runs only without a connection, so that the buffers it      *)
(* leaves behind when it fails are nobody's.                               *)
(***************************************************************************)
LEMMA ConnectedAsAskedStep ==
    ASSUME TypeOK, Prerequisite, Requests, ConnectedAsAsked, Next
    PROVE  ConnectedAsAsked'
<1> USE DEF ConnectedAsAsked, conn
<1>1. CASE Start \/ Open
  <2>1. ~connected
    BY <1>1 DEF Start, Open, Runs, Prerequisite, MustNotConn
  <2>2. CASE UNCHANGED <<conn, sent, session>>
    BY <2>1, <2>2
  <2>3. CASE \E u \in OptUser, p \in OptPass, h \in Places, d \in Dirs : Connect(u, p, h, d)
    BY <2>1, <2>3, ConnectEnds
  <2> QED  BY <1>1, <2>2, <2>3 DEF Start, Open
<1>2. CASE Cd
  <2>1. CASE \E d \in Dirs : smb' = [smb EXCEPT !.path = d]
                            /\ session' = [session EXCEPT !.path = d]
    BY <1>2, <2>1 DEF Cd
  <2>2. CASE UNCHANGED <<smb, session>>
    BY <1>2, <2>2 DEF Cd
  <2> QED  BY <1>2, <2>1, <2>2 DEF Cd
<1>3. CASE ~(Start \/ Open \/ Cd)
  <2>1. UNCHANGED <<smb, session>> /\ (UNCHANGED connected \/ connected' = FALSE)
    BY <1>3 DEF Next, Program, User, Command, Prompt, Leave, EndOfInput,
           OtherLine, Interrupt, hist, Local, NoListing, EnterCommand,
           CheckCommand, Glob, Close, Quit, LsShares, LsHosts,
           LsWorkgroups, Listing, NextArg, DoArg
  <2> QED  BY <2>1
<1> QED  BY <1>1, <1>2, <1>3

\* Requests for files are made as the connection's user.
LEMMA RequestsStep ==
    ASSUME TypeOK, Prerequisite, Requests, ConnectedAsAsked, Next
    PROVE  Requests'
<1> DEFINE AsUser(c) == Request("file", Uri(c), FALSE, NoCred, c)
<1>a. ~listing'
  <2>1. CASE LsShares \/ LsHosts \/ LsWorkgroups
    BY <2>1, Zenon DEF LsShares, LsHosts, LsWorkgroups, Listing, ListingEnds
  <2>2. CASE ~(LsShares \/ LsHosts \/ LsWorkgroups)
    <3>1. UNCHANGED lst
      BY <2>2, Zenon DEF Next, Program, User, Command, Start, Prompt, Leave, EndOfInput,
             OtherLine, Interrupt, Local, NoListing, EnterCommand,
             CheckCommand, Glob, Open, Close, Quit, Cd, NextArg, DoArg
    <3> QED  BY <3>1 DEF Requests, lst
  <2> QED  BY <2>1, <2>2
<1>b. connected' /\ sent'.kind \notin {"shares", "hosts", "workgroups"} => sent' = AsUser(session')
  <2> USE DEF conn, Requests
  <2>1. CASE Start \/ Open
    <3>1. ~connected
      BY <2>1 DEF Start, Open, Runs, Prerequisite, MustNotConn
    <3>2. CASE UNCHANGED <<conn, sent, session>>
      BY <3>1, <3>2
    <3>3. CASE \E u \in OptUser, p \in OptPass, h \in Places, d \in Dirs : Connect(u, p, h, d)
      BY <3>1, <3>3, ConnectEnds
    <3> QED  BY <2>1, <3>2, <3>3 DEF Start, Open
  <2>2. CASE Cd
    <3>1. connected' = connected
      BY <2>2 DEF Cd
    <3>2. CASE UNCHANGED <<smb, sent, session>>
      BY <3>1, <3>2
    <3>3. CASE FileRequest(smb)
      <4>1. sent' = AsUser(smb)
        BY <3>3, FileRequestAs
      <4>2. Uri(session') = Uri(session) /\ Auth(FALSE, NoCred, session') = Auth(FALSE, NoCred, session)
        BY <2>2 DEF Cd, Uri, Auth, CredOf, TypeOK, Connections
      <4>3. AsUser(session') = AsUser(session)
        BY <4>2 DEF Request
      <4> QED  BY <3>1, <4>1, <4>3 DEF ConnectedAsAsked
    <3> QED  BY <2>2, <3>2, <3>3 DEF Cd
  <2>3. CASE Glob \/ DoArg
    <3>1. UNCHANGED <<connected, session>>
      BY <2>3 DEF Glob, DoArg, hist
    <3>2. CASE UNCHANGED sent
      BY <3>1, <3>2
    <3>3. CASE FileRequest(smb)
      BY <3>1, <3>3, FileRequestAs DEF ConnectedAsAsked
    <3> QED  BY <2>3, <3>2, <3>3 DEF Glob, DoArg
  <2>4. CASE LsShares \/ LsHosts \/ LsWorkgroups
    <3>1. PICK k, c, l : k \in {"shares", "hosts", "workgroups"} /\ Listing(k, c, l)
      BY <2>4 DEF LsShares, LsHosts, LsWorkgroups
    <3>2. sent'.kind = k
      BY <3>1 DEF Listing, Request
    <3> QED  BY <3>1, <3>2
  <2>5. CASE ~(Start \/ Open \/ Cd \/ Glob \/ DoArg \/ LsShares \/ LsHosts \/ LsWorkgroups)
    <3>1. UNCHANGED <<sent, session>> /\ (UNCHANGED connected \/ connected' = FALSE)
      BY <2>5 DEF Next, Program, User, Command, Prompt, Leave, EndOfInput,
             OtherLine, Interrupt, hist, Local, NoListing, EnterCommand,
             CheckCommand, Close, Quit, NextArg
    <3> QED  BY <3>1
  <2> QED  BY <2>1, <2>2, <2>3, <2>4, <2>5
<1> QED  BY <1>a, <1>b DEF Requests

\* The credentials of a listing are those its command was given.
LEMMA ListingsStep ==
    ASSUME TypeOK, Requests, ListingsAsAsked, Next
    PROVE  ListingsAsAsked'
<1> USE DEF ListingsAsAsked, Auth
<1>1. CASE LsShares
  <2>1. PICK u \in OptUser, p \in OptPass :
           Listing("shares", SharesUri(u, p), Cred(u, p)) /\ wanted' = Cred(u, p)
    BY <1>1 DEF LsShares
  <2> QED  BY <2>1 DEF Listing, Request
<1>2. CASE LsHosts
  BY <1>2 DEF LsHosts, Listing, Request, HostCred
<1>3. CASE LsWorkgroups
  BY <1>3 DEF LsWorkgroups, Listing, Request
<1>4. CASE ~(LsShares \/ LsHosts \/ LsWorkgroups)
  <2>1. wanted' = wanted
    BY <1>4, Zenon DEF Next, Program, User, Command, Start, Prompt, Leave, EndOfInput,
           OtherLine, Interrupt, hist, Local, NoListing, EnterCommand,
           CheckCommand, Glob, Open, Close, Quit, Cd, NextArg, DoArg
  <2>2. sent' = sent \/ sent'.kind = "file"
    <3>1. sent' = sent \/ \E c : FileRequest(c)
      BY <1>4 DEF Next, Program, User, Command, Start, Prompt, Leave, EndOfInput,
             OtherLine, Interrupt, Local, NoListing, EnterCommand, Connect,
             CheckCommand, Glob, Open, Close, Quit, Cd, NextArg, DoArg
    <3> QED  BY <3>1 DEF FileRequest, Request
  <2> QED  BY <2>1, <2>2
<1> QED  BY <1>1, <1>2, <1>3, <1>4

LEMMA LateStep ==
    ASSUME TypeOK, Prerequisite, Late, Next
    PROVE  Late'
<1> USE DEF Late, Back
<1>1. CASE Start \/ Leave \/ EndOfInput \/ OtherLine \/ Local \/ NoListing
        \/ Open \/ Close \/ Quit \/ Cd
  <2>1. late' = late /\ pc' \in {"prompt", "exited"}
    BY <1>1 DEF Start, Leave, EndOfInput, OtherLine, Local, NoListing, Open,
           Close, Quit, Cd, hist
  <2> QED  BY <2>1
<1>2. CASE LsShares \/ LsHosts \/ LsWorkgroups
  <2>1. late' = late /\ pc' = "prompt"
    BY <1>2, Zenon DEF LsShares, LsHosts, LsWorkgroups, Listing
  <2> QED  BY <2>1
<1>3. CASE Prompt
  BY <1>3 DEF Prompt
<1>4. CASE EnterCommand \/ CheckCommand \/ Glob
  BY <1>4 DEF EnterCommand, CheckCommand, Glob, hist
<1>5. CASE NextArg
  <2>1. late' = late /\ intr' = intr
    BY <1>5 DEF NextArg, hist
  <2>2. CASE MoreArgs
    <3>1. pc = "run" /\ pc' = "arg" /\ UNCHANGED <<cmd, args>>
      BY <1>5, <2>2 DEF NextArg
    <3>2. late # 1
      BY <2>2, <3>1 DEF MoreArgs
    <3>3. late' = 0
      BY <2>1, <3>2 DEF TypeOK
    <3> QED  BY <2>2, <3>1, <3>3 DEF MoreArgs
  <2>3. CASE ~MoreArgs
    BY <1>5, <2>1, <2>3 DEF NextArg
  <2> QED  BY <2>2, <2>3
<1>6. CASE DoArg
  <2>1. late = 0 /\ pc' = "run" /\ (cmd' = "single" => args' = 0)
    BY <1>6 DEF DoArg, AfterArg
  <2>2. late' <= 1 /\ (late' = 1 => intr')
    BY <1>6, <2>1 DEF DoArg
  <2> QED  BY <2>1, <2>2
<1>7. CASE Interrupt
  <2>1. UNCHANGED <<pc, cmd, args, late>> /\ intr' = TRUE
    BY <1>7 DEF Interrupt, loop, hist
  <2> QED  BY <2>1
<1> QED
  BY <1>1, <1>2, <1>3, <1>4, <1>5, <1>6, <1>7 DEF Next, Program, User, Command

-----------------------------------------------------------------------------
\* What every theorem below rests on.
THEOREM Invariance == Spec => []IInv
<1>1. IInv /\ [Next]_vars => IInv'
  <2> SUFFICES ASSUME IInv, [Next]_vars PROVE IInv'
    OBVIOUS
  <2>1. CASE Next
    BY <2>1, TypeStep, PrerequisiteStep, ConnectedAsAskedStep, RequestsStep,
       ListingsStep, LateStep DEF IInv
  <2>2. CASE UNCHANGED vars
    <3>1. /\ UNCHANGED <<pc, cmd, args, done, intr, connected, smb, list>>
          /\ UNCHANGED <<listing, sent, session, wanted, late>>
      BY <2>2 DEF vars, loop, conn, lst, hist
    <3>2. TypeOK' /\ ConnectedAsAsked' /\ ListingsAsAsked'
      BY <3>1 DEF IInv, TypeOK, ConnectedAsAsked, ListingsAsAsked
    <3>3. Prerequisite' /\ Late'
      BY <3>1 DEF IInv, Prerequisite, Late
    <3>4. Requests'
      BY <3>1 DEF IInv, Requests
    <3> QED  BY <3>2, <3>3, <3>4 DEF IInv
  <2> QED  BY <2>1, <2>2
<1> QED  BY <1>1, InitIInv, PTL DEF Spec

\* The variables of the connection and the loop keep to their ranges.
THEOREM TypeCorrect == Spec => []TypeOK
BY Invariance, PTL DEF IInv

(***************************************************************************)
(* While connected, user, share and directory are those of the last `open' *)
(* and `cd' that succeeded (smbwrap.c:83, cmds.c:116).                     *)
(***************************************************************************)
THEOREM ConnectionAsAsked == Spec => []ConnectedAsAsked
BY Invariance, PTL DEF IInv

(***************************************************************************)
(* Requests for files need a connection and are made as its user, whatever *)
(* listings came before (smbwrap.c:561-567).                               *)
(***************************************************************************)
THEOREM RequestsAsUser == Spec => []FilesAsUser
<1>1. IInv => FilesAsUser
  BY DEF IInv, FilesAsUser, Prerequisite, Requests, RemoteGlobbing, Loops,
         MustConn
<1> QED  BY <1>1, Invariance, PTL

\* lsshares and lshosts authenticate as they were asked to.
THEOREM ListingsCorrect == Spec => []ListingsAsAsked
BY Invariance, PTL DEF IInv

\* After SIGINT at most one argument more is begun.
THEOREM StopsPromptly == Spec => []StopsAtInterrupt
<1>1. IInv => StopsAtInterrupt
  BY DEF IInv, Late, StopsAtInterrupt
<1> QED  BY <1>1, Invariance, PTL
=============================================================================
