---------------------------- MODULE GuestLaunch ----------------------------
(***************************************************************************)
(* What a launch promises to the guest: its project and its environment.   *)
(*                                                                         *)
(* claudepod-start turns the current directory and the options into volumes *)
(* and -e flags of podman, claudepod-entry turns the environment it finds  *)
(* into files under /run, and the guest's service (guest-module.nix)       *)
(* sources one of them and starts the agent, the shell or the command      *)
(* through a login shell.  What the user asked for crosses four programs,  *)
(* each with a syntax of its own.                                          *)
(*                                                                         *)
(* Launches follow one another over the same backing directory of the      *)
(* guest home, where the directories they mount upon remain.               *)
(*                                                                         *)
(* A path is a sequence of names, the value of a variable a sequence of    *)
(* characters, or of the names or options it stands for.  Volumes with     *)
(* places of their own are left out: the store and its layers              *)
(* (NestedStores), the proxy's socket, devices.                            *)
(***************************************************************************)
EXTENDS Integers, SequencesExt

CONSTANTS
    Username,      \* in the user database of the host
    Homes,         \* what HOME may be
    Invocations,   \* current directories and options, and the host's time zone
    HostEnv,       \* the launcher's environment, for flags without a value
    ServiceEnv,    \* the environment of the guest's service
    Logins,        \* what a login shell may do to the variables it is given
    Names,         \* of directories, users and variables; characters, options
    ColonNames     \* names with a colon in them

Path == Seq(Names)
NoDir == <<"no directory">>
Inherit == <<"no", "value">>   \* -e NAME
NoAgent == [dir |-> NoDir, program |-> <<>>, env |-> <<>>]

NAMES_ENV == "CLAUDEPOD_AGENT_ENV_NAMES"
PROJECT_ENV == "CLAUDEPOD_PROJECT_PATH"
MODE_ENV == "CLAUDEPOD_MODE"
VERBOSE_ENV == "CLAUDEPOD_VERBOSE"
USB_ENV == "CLAUDEPOD_USB"
TIMEZONE_ENV == "CLAUDEPOD_TIMEZONE"
STORE_LAYERS_ENV == "CLAUDEPOD_STORE_LAYERS"
USERNAME_ENV == "CLAUDEPOD_USERNAME"
TOPLEVEL_ENV == "CLAUDEPOD_TOPLEVEL"
OPENGL_DRIVER_ENV == [name |-> "LD_LIBRARY_PATH", value |-> <<"driver">>]

\* Characters with a meaning in a file of assignments.
Quote == "'"
Backslash == "\\"
Newline == "\n"

\* Names that are no shell identifiers: one to try, and those that a file of
\* assignments would not be read with.
BadNames == {"BAD-NAME", "", "=", Quote, Backslash, Newline}

\* Variables that the shell does not let a script assign.
ReadOnly == {"UID", "EUID", "PPID", "SHELLOPTS", "BASHOPTS"}

VolumeSpecs == [host : Path, relative : BOOLEAN, guest : Path]

InvocationType ==
    [cwd : Path, sandbox : Path, extra : SUBSET VolumeSpecs,
     env : Seq([name : Names, value : Path]), gpu : BOOLEAN,
     verbose : BOOLEAN, usb : BOOLEAN, timezone : Path,
     mode : {"shell", "claude", "codex"}, command : Path]

ASSUME LaunchAssumption ==
    /\ {"home", "state", "src", "projects", "temp", "shell", "claude", "codex",
        "driver", "1", "layers", "toplevel", OPENGL_DRIVER_ENV.name, NAMES_ENV,
        VERBOSE_ENV, USB_ENV, TIMEZONE_ENV, STORE_LAYERS_ENV, USERNAME_ENV,
        TOPLEVEL_ENV, PROJECT_ENV, MODE_ENV,
        Quote, Backslash, Newline, "="} \subseteq Names
    /\ Username \in Names
    /\ Homes \subseteq Path
    /\ Invocations \subseteq InvocationType
    /\ \A n \in DOMAIN HostEnv : HostEnv[n] \in Path
    /\ {"MODE", "PROJECT", "COMMAND"} \intersect DOMAIN ServiceEnv = {}

VARIABLES
    home,       \* HOME
    phase,      \* how far the launch is
    args,       \* its invocation
    volumes,    \* the volumes podman is given
    flags,      \* the -e flags podman is given, in order
    env,        \* the environment of claudepod-entry
    run,        \* the files it leaves under /run
    agent,      \* what the guest's service starts
    userDirs,   \* directories below a backing directory, owned by the user
    rootDirs,   \* those owned by the root of a container
    asked       \* history: those an explicit volume was to be mounted on,
                \* or that lie in one

launch == <<args, volumes, flags, env, run, agent>>
dirs == <<userDirs, rootDirs, asked>>
vars == <<home, phase, launch, dirs>>

-----------------------------------------------------------------------------
(* Paths and volumes.                                                      *)

GuestHome == <<"home", Username>>
Rel(root, path) == SubSeq(path, Len(root) + 1, Len(path))

\* The directories from root, exclusive, down to path.
Below(root, path) == {SubSeq(path, 1, n) : n \in (Len(root) + 1)..Len(path)}

HasColon(path) == \E i \in 1..Len(path) : path[i] \in ColonNames

Volume(host, guest) == [host |-> host, guest |-> guest]

Deepest(vs) == CHOOSE v \in vs : \A w \in vs : Len(w.guest) <= Len(v.guest)

\* What a path of the guest shows: a directory of the host, by the deepest
\* volume on the way.
Shows(vs, path) ==
    LET over == {v \in vs : IsPrefix(v.guest, path)}
    IN  IF over = {} THEN NoDir
        ELSE Deepest(over).host \o Rel(Deepest(over).guest, path)

-----------------------------------------------------------------------------
(* claudepod-start: directories and volumes.                               *)

HomeDir(a) == IF a.sandbox = NoDir THEN home \o <<"state", "home">> ELSE a.sandbox

\* A mutant: the sandbox does without ~/src, but not so its project path.
UnderSrcAlways(a) == IsPrefix(Append(home, "src"), a.cwd)

UnderSrc(a) == a.sandbox = NoDir /\ IsPrefix(Append(home, "src"), a.cwd)

OneToOne(a) == \E root \in {"projects", "temp"} : IsPrefix(Append(home, root), a.cwd)

\* The root directory has no name.
Nameless(a) == ~UnderSrc(a) /\ ~OneToOne(a) /\ a.cwd = <<>>

GuestProjectPath(a) ==
    IF UnderSrc(a) THEN GuestHome \o Rel(home, a.cwd)
    ELSE IF OneToOne(a) THEN a.cwd
    ELSE <<"projects", Last(a.cwd)>>

NeedProjectShare(a) == ~UnderSrc(a)

\* A mutant: the parent of the mountpoint is made, and not the mountpoint.
MountpointParent(a) ==
    IF NeedProjectShare(a) /\ IsPrefix(GuestHome, GuestProjectPath(a))
    THEN Below(HomeDir(a), HomeDir(a) \o Front(Rel(GuestHome, GuestProjectPath(a))))
    ELSE {}

\* What create_dir_all makes for the project, so that it is the user's.
Mountpoint(a) ==
    IF NeedProjectShare(a) /\ IsPrefix(GuestHome, GuestProjectPath(a))
    THEN Below(HomeDir(a), HomeDir(a) \o Rel(GuestHome, GuestProjectPath(a)))
    ELSE {}

\* It fails where the parent belongs to the root of a container.
Blocked(a) ==
    /\ ~Nameless(a)
    /\ \E d \in Mountpoint(a) : d \notin userDirs \union rootDirs /\ Front(d) \in rootDirs

\* -v: a relative host side is taken from the current directory.
ExtraVolume(a, spec) ==
    LET host == IF spec.relative THEN a.cwd \o spec.host ELSE spec.host
    IN  Volume(host, IF spec.guest = NoDir THEN host ELSE spec.guest)

ExtraVolumes(a) == {ExtraVolume(a, spec) : spec \in a.extra}

Volumes(a) ==
    {Volume(HomeDir(a), GuestHome)}
    \union (IF a.sandbox # NoDir THEN {} ELSE {Volume(Append(home, "src"), Append(GuestHome, "src"))})
    \union (IF NeedProjectShare(a) THEN {Volume(a.cwd, GuestProjectPath(a))} ELSE {})
    \union ExtraVolumes(a)

\* The volumes the launcher makes itself are held against colons.
Unencodable(a) == \E v \in Volumes(a) \ ExtraVolumes(a) : HasColon(v.host) \/ HasColon(v.guest)

-----------------------------------------------------------------------------
(* claudepod-start: environment.                                           *)

BadEnv(a) == \E i \in 1..Len(a.env) : a.env[i].name \in BadNames \union {NAMES_ENV}

EnvSpecs(a) == IF a.gpu THEN <<OPENGL_DRIVER_ENV>> \o a.env ELSE a.env

JoinNames(specs) ==
    [k \in 1..(2 * Len(specs) - 1) |-> IF k % 2 = 1 THEN specs[(k + 1) \div 2].name ELSE Newline]

EnvArg(name, value) == [name |-> name, value |-> value]

When(condition, flag) == IF condition THEN <<flag>> ELSE <<>>

\* What the launcher tells the entry.
OwnFlags(a) ==
    When(a.verbose, EnvArg(VERBOSE_ENV, <<"1">>))
    \o When(a.usb, EnvArg(USB_ENV, <<"1">>))
    \o When(a.timezone # NoDir, EnvArg(TIMEZONE_ENV, a.timezone))
    \o <<EnvArg(STORE_LAYERS_ENV, <<"layers">>), EnvArg(USERNAME_ENV, <<Username>>),
         EnvArg(TOPLEVEL_ENV, <<"toplevel">>), EnvArg(PROJECT_ENV, GuestProjectPath(a)),
         EnvArg(MODE_ENV, <<a.mode>>)>>

Listed(a) == When(EnvSpecs(a) # <<>>, EnvArg(NAMES_ENV, JoinNames(EnvSpecs(a))))

\* A mutant: what the user says of the launcher's own variables comes last.
FlagsOwnFirst(a) == OwnFlags(a) \o EnvSpecs(a) \o Listed(a)

Flags(a) == EnvSpecs(a) \o Listed(a) \o OwnFlags(a)

-----------------------------------------------------------------------------
Init ==
    /\ home \in Homes
    /\ phase = "idle"
    /\ args = NoDir /\ volumes = {} /\ flags = <<>> /\ env = <<>> /\ run = <<>>
    /\ agent = NoAgent
    /\ userDirs = {} /\ rootDirs = {} /\ asked = {}

\* The launcher fails before it has made anything.
Refuse(a) ==
    /\ phase = "idle"
    /\ BadEnv(a) \/ Nameless(a) \/ Blocked(a)
    /\ UNCHANGED vars

\* It fails when the mountpoint has been made: a colon in a volume, or the
\* manifest or the proxy.
LaunchFails(a) ==
    /\ phase = "idle"
    /\ ~BadEnv(a) /\ ~Nameless(a) /\ ~Blocked(a)
    /\ userDirs' = userDirs \union (Mountpoint(a) \ rootDirs)
    /\ UNCHANGED <<home, phase, launch, rootDirs, asked>>

Launch(a) ==
    /\ phase = "idle"
    /\ ~BadEnv(a) /\ ~Nameless(a) /\ ~Blocked(a)
    /\ ~Unencodable(a)
    /\ userDirs' = userDirs \union (Mountpoint(a) \ rootDirs)
    /\ phase' = "launched"
    /\ args' = a
    /\ volumes' = Volumes(a)
    /\ flags' = Flags(a)
    /\ UNCHANGED <<home, env, run, agent, rootDirs, asked>>

(* podman.                                                                 *)

TwiceMounted == \E v, w \in volumes : v.guest = w.guest /\ v # w

Over(v) == {w \in volumes : IsStrictPrefix(w.guest, v.guest)}

\* The directories of the backing directory on the way to where a volume is
\* mounted, unless another volume lies over them.
OnTheWay(v) ==
    LET root == HomeDir(args)
        place == Shows(Over(v), v.guest)
    IN  IF place # NoDir /\ IsPrefix(root, place) THEN Below(root, place) ELSE {}

\* An explicit volume, or one that is mounted in an explicit one.
Explicit(v) ==
    \/ v \in ExtraVolumes(args)
    \/ Over(v) # {} /\ Deepest(Over(v)) \in ExtraVolumes(args)

Assign(f, n, value) == [x \in DOMAIN f \union {n} |-> IF x = n THEN value ELSE f[x]]

\* The environment that the flags make: the last one of a name counts, and
\* one without a value takes that of the launcher, if there is one.
WithFlag(f, flag) ==
    IF flag.value # Inherit THEN Assign(f, flag.name, flag.value)
    ELSE IF flag.name \in DOMAIN HostEnv THEN Assign(f, flag.name, HostEnv[flag.name])
    ELSE f

Environment(fs) ==
    LET after[i \in 0..Len(fs)] == IF i = 0 THEN <<>> ELSE WithFlag(after[i - 1], fs[i])
    IN  after[Len(fs)]

PodmanRun ==
    /\ phase = "launched"
    /\ ~TwiceMounted
    /\ phase' = "created"
    /\ env' = Environment(flags)
    /\ rootDirs' = rootDirs \union ((UNION {OnTheWay(v) : v \in volumes}) \ userDirs)
    /\ asked' = asked \union UNION {OnTheWay(v) : v \in {w \in volumes : Explicit(w)}}
    /\ UNCHANGED <<home, args, volumes, flags, run, agent, userDirs>>

\* The launch is over: podman fails, the entry does, or the session ends.
End ==
    /\ phase # "idle"
    /\ phase' = "idle"
    /\ args' = NoDir /\ volumes' = {} /\ flags' = <<>> /\ env' = <<>> /\ run' = <<>>
    /\ agent' = NoAgent
    /\ UNCHANGED <<home, dirs>>

-----------------------------------------------------------------------------
(* claudepod-entry.                                                        *)

AgentEnvNames ==
    IF NAMES_ENV \notin DOMAIN env \/ env[NAMES_ENV] = <<>> THEN <<>>
    ELSE [i \in 1..((Len(env[NAMES_ENV]) + 1) \div 2) |-> env[NAMES_ENV][2 * i - 1]]

\* Within single quotes only the quote itself has to be led out.
Quoted(value) ==
    <<Quote>>
    \o FlattenSeq([i \in 1..Len(value) |->
           IF value[i] = Quote THEN <<Quote, Backslash, Quote, Quote>> ELSE <<value[i]>>])
    \o <<Quote>>

EnvLine(name) ==
    IF name \in DOMAIN env THEN <<name, "=">> \o Quoted(env[name]) \o <<Newline>> ELSE <<>>

WriteRuntimeConfig ==
    /\ phase = "created"
    /\ \A i \in 1..Len(AgentEnvNames) : AgentEnvNames[i] \notin BadNames
    /\ {TOPLEVEL_ENV, USERNAME_ENV} \subseteq DOMAIN env
    /\ \A n \in {STORE_LAYERS_ENV, PROJECT_ENV, MODE_ENV} : n \in DOMAIN env /\ env[n] # <<>>
    /\ phase' = "entered"
    /\ run' = [project |-> env[PROJECT_ENV],
               mode    |-> env[MODE_ENV],
               command |-> args.command,
               env     |-> FlattenSeq([i \in 1..Len(AgentEnvNames) |-> EnvLine(AgentEnvNames[i])])]
    /\ UNCHANGED <<home, args, volumes, flags, env, agent, dirs>>

-----------------------------------------------------------------------------
(* The guest's service: set -a; . /run/claudepod-env; set +a               *)

\* One token of a file of assignments, as a shell reads it.
ShellReads(s, t) ==
    CASE s.escaped -> [s EXCEPT !.word = Append(@, t), !.escaped = FALSE]
      [] ~s.escaped /\ t = Quote -> [s EXCEPT !.quoted = ~@]
      [] s.quoted /\ t # Quote -> [s EXCEPT !.word = Append(@, t)]
      [] ~s.escaped /\ ~s.quoted /\ t = Backslash -> [s EXCEPT !.escaped = TRUE]
      [] ~s.escaped /\ ~s.quoted /\ t = Newline ->
            [s EXCEPT !.vars = Assign(@, s.name, s.word), !.name = "", !.word = <<>>]
      [] OTHER -> IF s.name = "" THEN [s EXCEPT !.name = t]
                  ELSE IF t = "=" /\ s.word = <<>> THEN s
                  ELSE [s EXCEPT !.word = Append(@, t)]

NothingRead == [vars |-> <<>>, name |-> "", word |-> <<>>, quoted |-> FALSE, escaped |-> FALSE]

Sourced(file) ==
    LET after[i \in 0..Len(file)] ==
          IF i = 0 THEN NothingRead ELSE ShellReads(after[i - 1], file[i])
    IN  after[Len(file)].vars

\* The script keeps what it is to start in variables MODE and PROJECT and in
\* an array COMMAND, read before the file is sourced: the file's assignments
\* reach them as well, for COMMAND its first element.
ShellValue(vars_, name, value) == IF name \in DOMAIN vars_ THEN vars_[name] ELSE value

Command(vars_) ==
    IF "COMMAND" \in DOMAIN vars_
    THEN <<vars_["COMMAND"]>> \o (IF run.command = <<>> THEN <<>> ELSE Tail(run.command))
    ELSE run.command

\* The environment the script leaves: what it sourced, over that of the
\* service.  COMMAND is an array, which a shell does not export.
Exported(vars_) ==
    [n \in DOMAIN ServiceEnv \union (DOMAIN vars_ \ {"COMMAND"}) |-> ShellValue(vars_, n, ServiceEnv[n])]

\* bash --login: it and its start-up files, direnv among them, set and unset
\* variables before the agent is started.
LoggedIn(environment, login) ==
    [n \in (DOMAIN environment \ login.unset) \union DOMAIN login.set |->
        IF n \in DOMAIN login.set THEN login.set[n] ELSE environment[n]]

StartAgent ==
    LET vs == Sourced(run.env)
        mode == ShellValue(vs, "MODE", run.mode)
    IN  /\ phase = "entered"
        /\ DOMAIN vs \intersect ReadOnly = {}
        /\ Command(vs) # <<>> \/ mode \in {<<"shell">>, <<"claude">>, <<"codex">>}
        /\ phase' = "serving"
        /\ \E login \in Logins :
              agent' = [dir     |-> ShellValue(vs, "PROJECT", run.project),
                        program |-> IF Command(vs) # <<>> THEN Command(vs) ELSE mode,
                        env     |-> LoggedIn(Exported(vs), login)]
        /\ UNCHANGED <<home, args, volumes, flags, env, run, dirs>>

Next ==
    \/ \E a \in Invocations : Refuse(a) \/ LaunchFails(a) \/ Launch(a)
    \/ PodmanRun \/ WriteRuntimeConfig \/ StartAgent \/ End

Spec == Init /\ [][Next]_vars

-----------------------------------------------------------------------------
(* Properties.                                                             *)

\* The directory the launcher was called from is what the guest finds under
\* the project path it is told, whatever lies where on the host, with the
\* sandbox or without, and whatever other volumes and variables are asked for.
\* Only a project in ~/src, which has no volume of its own, is hidden by an
\* explicit volume that is mounted on it or between it and ~/src.
Hidden(path) ==
    \E v \in ExtraVolumes(args) :
        IsStrictPrefix(Append(GuestHome, "src"), v.guest) /\ IsPrefix(v.guest, path)

ProjectReachesGuest ==
    phase \in {"entered", "serving"} /\ ~(UnderSrc(args) /\ Hidden(run.project)) =>
        Shows(volumes, run.project) = args.cwd

\* The flags that give a variable a value, and the value of the last of them.
Says(fs, n) ==
    {i \in 1..Len(fs) : fs[i].name = n /\ (fs[i].value # Inherit \/ n \in DOMAIN HostEnv)}

LastSaid(fs, n) ==
    LET value == fs[CHOOSE i \in Says(fs, n) : \A j \in Says(fs, n) : j <= i].value
    IN  IF value = Inherit THEN HostEnv[n] ELSE value

\* The variables that a login shell may set or unset.
LoginNames == UNION {DOMAIN login.set \union login.unset : login \in Logins}

\* Whatever a login shell leaves alone, the agent's session has as selected:
\* each variable of a flag with the value that the last flag of the user says,
\* to the character, or the launcher's own flag where it has one of that name;
\* nothing else is added to the environment of the service, and nothing is
\* lost but COMMAND, an array of the script: through podman's flags, the list
\* of names, the quotes of the entry and the shell's reading.
EnvReachesAgent ==
    agent # NoAgent =>
        LET asks == IF args.gpu THEN <<OPENGL_DRIVER_ENV>> \o args.env ELSE args.env
            own == OwnFlags(args)
            told == {n \in {asks[i].name : i \in 1..Len(asks)} \ {"COMMAND"} :
                        Says(asks, n) \union Says(own, n) # {}}
            kept == DOMAIN agent.env \ LoginNames
        IN  /\ kept = (told \union DOMAIN ServiceEnv) \ LoginNames
            /\ \A n \in kept :
                  agent.env[n] = IF n \notin told THEN ServiceEnv[n]
                                 ELSE IF Says(own, n) # {} THEN LastSaid(own, n)
                                 ELSE LastSaid(asks, n)

\* Over any sequence of launches, refused ones included, the root of a
\* container comes to own nothing in a backing directory but the mountpoint of
\* ~/src in that of the launches without a sandbox, and what explicit volumes
\* have to do with, as mountpoints or as what is mounted over: a project by
\* itself never leaves a directory that its user cannot write or remove.
ResidueOnlyAskedFor == \A d \in rootDirs : d \in asked \/ d = home \o <<"state", "home", "src">>

\* The command runs in the project directory.
AgentStartsInProject == agent # NoAgent => agent.dir = run.project
=============================================================================
