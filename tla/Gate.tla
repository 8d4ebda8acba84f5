-------------------------------- MODULE Gate --------------------------------
(***************************************************************************)
(* The repository gate (repo.go, gateMiddleware): an upstream with a       *)
(* repoWhitelist lists its capabilities only to a client whose workspace   *)
(* is in one of these repositories.  The entries are resolved when the     *)
(* upstream is made, the client's workspace at each list request, both     *)
(* with git, which may fail or time out every time.                        *)
(***************************************************************************)
EXTENDS Naturals, Sequences

CONSTANTS
  Dirs,    \* directories
  Repos,   \* repositories, which a git common dir identifies
  RepoAt,  \* the repository a directory or worktree is in, if any
  Urls,    \* the URLs of remotes and entries
  Remotes, \* the URLs of a repository's remotes
  NoRepo, NoHost, NoPort, NoPath,
  NoMatcher \* no gate at all

(* A URL has one of two forms, "scp" (user@host:path, without a port) or   *)
(* "url", and after its path a tail of marks: <<"git", "slash">> is        *)
(* ".git/".                                                                *)

\* An entry of a whitelist: blank, a URL, or a word, which may name a local
\* directory and look like a host.
Entry == [kind : {"blank"}] \cup [kind : {"url"}, url : Urls]
           \cup [kind : {"word"}, dir : Dirs, host : {u.host : u \in Urls} \cup {NoHost}]

ASSUME ReposAssumption ==
  /\ NoRepo \notin Repos /\ RepoAt \in [Dirs -> Repos \cup {NoRepo}]
  /\ Remotes \in [Repos -> SUBSET Urls]

\* A URL has a host, and an scp one a path; ".git" ends it once, if at all.
ASSUME UrlsAssumption ==
  \A u \in Urls :
    /\ u.form \in {"scp", "url"} /\ u.host # NoHost /\ (u.form = "scp" => u.path # NoPath)
    /\ u.tail \in Seq({"git", "slash"}) /\ \A i \in 2 .. Len(u.tail) : u.tail[i] = "slash"

-----------------------------------------------------------------------------
(* normalizeRemote.                                                        *)

\* strings.TrimRight(s, "/") and strings.TrimSuffix(s, ".git").
TrimSlashes(tail) ==
  LET kept == {i \in 0 .. Len(tail) : \A j \in i + 1 .. Len(tail) : tail[j] = "slash"}
  IN  SubSeq(tail, 1, CHOOSE i \in kept : \A j \in kept : i <= j)
TrimGit(tail) ==
  IF tail # <<>> /\ tail[Len(tail)] = "git" THEN SubSeq(tail, 1, Len(tail) - 1) ELSE tail

\* Mutant: the suffix is trimmed first.
KeyMut(u) == [host |-> u.host, port |-> IF u.form = "scp" THEN NoPort ELSE u.port,
              path |-> u.path, tail |-> TrimSlashes(TrimGit(u.tail))]
Key(u) == [host |-> u.host, port |-> IF u.form = "scp" THEN NoPort ELSE u.port,
           path |-> u.path, tail |-> TrimGit(TrimSlashes(u.tail))]

\* What the gate keeps of a whitelist: common dirs, keys and hosts.
RepoMatcher == [dirs : SUBSET Repos, remotes : SUBSET {Key(u) : u \in Urls},
                hosts : SUBSET {u.host : u \in Urls}]
ASSUME MatcherAssumption == NoMatcher \notin RepoMatcher

-----------------------------------------------------------------------------
(* newRepoMatcher, on the set of entries; git fails for some directories.  *)

\* hostEntry: a URL without a path, or a word that looks like a host.
HostOf(e) ==
  CASE e.kind = "blank" -> NoHost
    [] e.kind = "url"   -> IF e.url.form = "url" /\ e.url.path = NoPath THEN e.url.host ELSE NoHost
    [] e.kind = "word"  -> e.host

\* gitCommonDir.
CommonDir(d, fails) == IF d \in fails THEN NoRepo ELSE RepoAt[d]

\* A word is tried as a local directory before it is read as a host.
IsLocal(e, fails) == e.kind = "word" /\ CommonDir(e.dir, fails) # NoRepo

Resolved(list, fails) ==
  [dirs    |-> {CommonDir(e.dir, fails) : e \in {x \in list : IsLocal(x, fails)}},
   remotes |-> {Key(e.url) : e \in {x \in list : x.kind = "url" /\ HostOf(x) = NoHost}},
   hosts   |-> {HostOf(e) : e \in {x \in list : ~IsLocal(x, fails)}} \ {NoHost}]

NothingResolved == [dirs |-> {}, remotes |-> {}, hosts |-> {}]

\* Mutant: a whitelist of which nothing resolves counts as none.
MatcherMut(list, fails) ==
  IF Resolved(list, fails) = NothingResolved THEN NoMatcher ELSE Resolved(list, fails)
\* No whitelist, no gate; one of which nothing resolves keeps everybody out.
Matcher(list, fails) == IF list = {} THEN NoMatcher ELSE Resolved(list, fails)

-----------------------------------------------------------------------------
(* A list request.                                                         *)

\* clientRepoDirs: the roots of a client that may be asked and answers, and
\* what its headers name.
ClientDirs(c) == (IF c.usable /\ c.answers THEN c.roots ELSE {}) \cup c.headers

\* matches: gitCommonDir or gitRemotes may fail for a directory.
Matches(m, dirs, fails) ==
  \E d \in dirs :
    /\ RepoAt[d] # NoRepo
    /\ \/ <<d, "dir">> \notin fails /\ RepoAt[d] \in m.dirs
       \/ /\ <<d, "remotes">> \notin fails
          /\ \E u \in Remotes[RepoAt[d]] : Key(u) \in m.remotes \/ u.host \in m.hosts

\* advertiseTo, of the middleware that is there only with a matcher.
Advertises(m, c, fails) == m = NoMatcher \/ Matches(m, ClientDirs(c), fails)

-----------------------------------------------------------------------------
(* What a whitelist means.                                                 *)

\* The ssh and the https form of a URL, with or without ".git", are one; a
\* port that is given counts.
SameRepo(u, v) ==
  /\ u.host = v.host /\ u.path = v.path
  /\ (IF u.form = "scp" THEN NoPort ELSE u.port) = (IF v.form = "scp" THEN NoPort ELSE v.port)

\* The repository at d has a remote on this host.
OnHost(d, host) == host # NoHost /\ \E u \in Remotes[RepoAt[d]] : u.host = host

\* The directory d belongs to the entry e.
Belongs(d, e) ==
  /\ RepoAt[d] # NoRepo
  /\ \/ e.kind = "url" /\ e.url.path # NoPath /\ \E u \in Remotes[RepoAt[d]] : SameRepo(u, e.url)
     \/ e.kind = "url" /\ e.url.path = NoPath /\ OnHost(d, e.url.host)
     \/ e.kind = "word" /\ RepoAt[d] = RepoAt[e.dir]
     \/ e.kind = "word" /\ RepoAt[e.dir] = NoRepo /\ OnHost(d, e.host)
=============================================================================
