------------------------------ MODULE FtpSession ------------------------------
(***************************************************************************)
(* The state of one FTP control session (ftp/server/session.go) and its    *)
(* handlers, as operators from a session and an argument to the possible   *)
(* outcomes: the session afterwards and the reply code.  The file system   *)
(* is an interface of the server; what it answers is left open, except for *)
(* Resolve, which decides what the working directory can become.           *)
(*                                                                         *)
(* Arguments are sequences of words; a path is the sequence of its         *)
(* segments, absolute when it begins with "/".                             *)
(***************************************************************************)
EXTENDS Naturals, Sequences, SequencesExt

CONSTANTS
  Rows,      \* Static's table as a set of <<user, password>>; {}: anonymous only
  NoData     \* session.passive = nil

Nobody == ""
Remote == 0    \* session.passive with a remote address; a port otherwise

newSession ==
  [user |-> Nobody, auth |-> Nobody, logged |-> FALSE, cwd |-> <<>>,
   renameTo |-> <<"">>, rest |-> "", type |-> "A", passive |-> NoData,
   dataTLS |-> FALSE]

Outcome(s, code) == [s |-> s, code |-> code]

(* Static.Authenticate, or AnonymousAuthenticator.Authenticate as set up   *)
(* by AllowAnonymous (cmd/ftpd chooses by whether users are configured).   *)
Authenticate(user, pass) ==
  IF Rows # {} THEN <<user, pass>> \in Rows
               ELSE user = "anonymous" /\ pass # ""

handleUSER(s, user) ==
  {Outcome([s EXCEPT !.user = user, !.auth = Nobody, !.logged = FALSE], 331)}

handlePASS(s, pass) ==
  IF s.user = Nobody \/ ~Authenticate(s.user, pass) THEN {Outcome(s, 530)}
  ELSE {Outcome([s EXCEPT !.auth = s.user, !.logged = TRUE, !.cwd = <<>>], 230)}

(* pathClean: "" and "." are dropped, ".." removes a segment if there is   *)
(* one.                                                                    *)
pathClean(segs) ==
  FoldLeft(LAMBDA out, seg : IF seg \in {"", "."} THEN out
                             ELSE IF seg = ".." THEN (IF out = <<>> THEN out ELSE Front(out))
                             ELSE Append(out, seg),
           <<>>, segs)

(* OS.Resolve; the cleaned path always is absolute.                        *)
Resolve(cwd, arg) ==
  IF arg = <<>> THEN cwd
  ELSE IF arg[1] = "/" THEN pathClean(Tail(arg))
  ELSE pathClean(cwd \o arg)

(* The directory may not exist, or not be one.                             *)
cwd2(s, arg) ==
  {Outcome([s EXCEPT !.cwd = Resolve(s.cwd, arg)], 250), Outcome(s, 550)}

type2(s, arg) ==
  {IF arg \in {<<"A">>, <<"I">>} THEN Outcome([s EXCEPT !.type = arg[1]], 200)
                                 ELSE Outcome(s, 500)}

(* port, eprt: parsePORT and the split at "|" accept or reject the text.   *)
port(s, arg) ==
  {IF arg = <<"addr">> THEN Outcome([s EXCEPT !.passive = Remote], 200)
                       ELSE Outcome(s, 500)}

(* dele, rmd, mkd, size, mdtm: a call of the file system.                  *)
dele(s) == {Outcome(s, 250), Outcome(s, 550)}
mkd(s)  == {Outcome(s, 257), Outcome(s, 550)}
size(s) == {Outcome(s, 213), Outcome(s, 550)}

rnfr(s, arg) == {Outcome([s EXCEPT !.renameTo = Resolve(s.cwd, arg)], 350)}

(* The source is forgotten only by a rename that succeeds.                 *)
rnto(s, arg) ==
  IF s.renameTo = <<"">> THEN {Outcome(s, 500)}
  ELSE {Outcome([s EXCEPT !.renameTo = <<"">>], 250), Outcome(s, 550)}

rest2(s, arg) ==
  {IF arg \in {<<"0">>, <<"1">>} THEN Outcome([s EXCEPT !.rest = arg[1]], 350)
                                 ELSE Outcome(s, 500)}

prot(s, arg) ==
  {IF arg \in {<<"C">>, <<"P">>} THEN Outcome([s EXCEPT !.dataTLS = arg = <<"P">>], 200)
                                 ELSE Outcome(s, 500)}

DataCommands == {"LIST", "NLST", "RETR", "STOR", "APPE"}
BeforeLogin == {"USER", "PASS", "QUIT", "AUTH", "FEAT", "NOOP", "HELP", "SYST",
                "PBSZ", "PROT", "CCC"}

(* Commands that need a login and do not have one.                         *)
Refused(s, name) == ~s.logged /\ name \notin BeforeLogin

(* dispatch, for the commands without a data connection.                   *)
dispatch(s, name, arg) ==
  CASE Refused(s, name) -> {Outcome(s, 530)}
    [] name = "USER" -> handleUSER(s, arg[1])
    [] name = "PASS" -> handlePASS(s, arg[1])
    [] name \in {"NOOP", "PBSZ"} -> {Outcome(s, 200)}
    [] name = "SYST" -> {Outcome(s, 215)}
    [] name = "FEAT" -> {Outcome(s, 211)}
    [] name = "HELP" -> {Outcome(s, 214)}
    [] name = "PWD" -> {Outcome(s, 257)}
    [] name = "CWD" -> cwd2(s, arg)
    [] name = "CDUP" -> cwd2(s, <<"..">>)
    [] name = "TYPE" -> type2(s, arg)
    [] name \in {"PORT", "EPRT"} -> port(s, arg)
    [] name \in {"DELE", "RMD"} -> dele(s)
    [] name = "MKD" -> mkd(s)
    [] name = "RNFR" -> rnfr(s, arg)
    [] name = "RNTO" -> rnto(s, arg)
    [] name = "REST" -> rest2(s, arg)
    [] name \in {"SIZE", "MDTM"} -> size(s)
    [] name = "PROT" -> prot(s, arg)
    [] OTHER -> {Outcome(s, 502)}
===============================================================================
