------------------------------ MODULE Require -------------------------------
(***************************************************************************)
(* lua-require.c: require() with values that expire.                       *)
(*                                                                         *)
(* What a module returned is kept in _LOADED under <root of the host>/     *)
(* <name>, but found on package.path, which is the worker's.  A time is    *)
(* kept per hash slot, in 16 bits; when it is code_cache_ttl ago the       *)
(* module is loaded again.  The key lies in one static buffer, so that a   *)
(* require inside a module overwrites the key of the one around it.        *)
(* The chunk of a module is called from C and cannot yield: a require and  *)
(* those inside it are over before anything else happens in the worker.    *)
(*                                                                         *)
(* The caller (module Scripts) says which host requires, and when.         *)
(***************************************************************************)
EXTENDS Integers, Sequences

CONSTANTS
  Hosts, Mods,
  Files,                   \* Lua files of a host that are not modules
  Needs,                   \* the modules each module requires in turn
  Slot,                    \* the hash of <<host, module>>, modulo 4096
  TTL,                     \* code_cache_ttl
  Word,                    \* numbers of an unsigned short: 2^16 (bound)
  None, Sentinel, True, Error,
  Moves                    \* what else may happen, see Scripts: "nil", "fail"

Keys  == Hosts \X Mods
Paths == Hosts \X (Files \cup Mods)

ASSUME TTLAssumption   == TTL \in Nat \ {0} /\ Word \in Nat /\ Word > TTL
ASSUME SlotAssumption  == Slot \in [Keys -> 0..4095]
ASSUME NeedsAssumption == Needs \in [Mods -> Seq(Mods)]
ASSUME ValuesAssumption == None # Sentinel

VARIABLES
  clock,   \* now
  disk,    \* the versions of each file, [at, mtime] of each
  gone,    \* files that are deleted
  path,    \* the host whose root is first on package.path
  loaded,  \* _LOADED
  ttls,    \* require_loaded_ttls
  tbuf,    \* what the static buffer holds
  nest,    \* the modules under execution: [key, value, todo]
  got      \* what the last step returned to a script: [key, value], or NoGot

world  == <<clock, disk, gone, path>>
tables == <<loaded, ttls, tbuf>>
NoGot  == [key |-> None, value |-> None]

\* A step of anything else.
NoRequire == UNCHANGED <<tables, nest>> /\ got' = NoGot

Version(h, f) == Len(disk[<<h, f>>])

\* The require that is innermost returns to the module around it, or to the script.
Return(key, value, rest) ==
  IF rest = <<>>
  THEN nest' = <<>> /\ got' = [key |-> key, value |-> value]
  ELSE nest' = [rest EXCEPT ![Len(rest)].todo = Tail(@)] /\ got' = NoGot

\* An error unwinds every require under way and leaves what they stored.
Raise(key) ==
  /\ nest' = <<>>
  /\ got' = [key |-> IF nest = <<>> THEN key ELSE nest[1].key, value |-> Error]

\* Wrong: an entry lives on until somebody else's use of the slot.
ExpiredNever(key) == ttls[Slot[key]] = 0

Expired(key) == (clock % Word) - ttls[Slot[key]] >= TTL

\* lua_f_package_require until the chunk of the module is called.
Call(h, m) ==
  LET key     == <<h, m>>
      slot    == Slot[key]
      found   == IF Expired(key) THEN None ELSE loaded[key]
  IN  /\ tbuf' = key
      /\ ttls' = IF ~ Expired(key) THEN ttls
                 ELSE [ttls EXCEPT ![slot] =
                         IF @ = 0 THEN (clock + (slot % TTL)) % Word ELSE clock % Word]
      /\ IF found = Sentinel \/ (found = None /\ <<path, m>> \in gone)
         THEN Raise(key) /\ UNCHANGED loaded
         ELSE IF found # None
         THEN Return(key, found, nest) /\ UNCHANGED loaded
         ELSE /\ loaded' = [loaded EXCEPT ![key] = Sentinel]
              /\ nest' = Append(nest, [key |-> key, todo |-> Needs[m],
                                       value |-> [of |-> <<path, m>>, v |-> Version(path, m)]])
              /\ got' = NoGot

\* The module returns a value, or nil: true is stored if nothing else was.
Finish ==
  LET top == nest[Len(nest)]
  IN  /\ nest # <<>> /\ top.todo = <<>>
      /\ \E value \in {top.value} \cup (IF "nil" \in Moves THEN {None} ELSE {}) :
           LET stored == IF value # None THEN value
                         ELSE IF loaded[tbuf] = Sentinel THEN True ELSE loaded[tbuf]
           IN  /\ loaded' = [loaded EXCEPT ![tbuf] = stored]
               /\ Return(top.key, stored, SubSeq(nest, 1, Len(nest) - 1))
      /\ UNCHANGED <<ttls, tbuf>>

\* The module raises an error.
Fail ==
  /\ nest # <<>> /\ nest[Len(nest)].todo = <<>>
  /\ "fail" \in Moves
  /\ Raise(nest[1].key)
  /\ UNCHANGED tables

\* A step of require(): the module m that a script of host h or the module under
\* execution asks for, or the end of one.
RequireStep(h) ==
  \/ \E m \in Mods :
       /\ nest # <<>> => /\ nest[Len(nest)].todo # <<>>
                         /\ m = Head(nest[Len(nest)].todo)
       /\ Call(h, m)
  \/ Finish
  \/ Fail

InitRequire ==
  /\ loaded = [key \in Keys |-> None]
  /\ ttls = [k \in {Slot[key] : key \in Keys} |-> 0]
  /\ tbuf = None
  /\ nest = <<>>
  /\ got = NoGot

-----------------------------------------------------------------------------
(* Properties. *)

\* lua-require.c:99: what require returns for a name is what is loaded under that
\* name.  It is not after a module that requires another one.
ReturnedIsLoaded ==
  [][got' # NoGot /\ got'.value # Error => loaded'[got'.key] = got'.value]_<<tables, nest, got>>

\* A script gets the module of its own host, and not one whose file was replaced
\* two lifetimes ago or earlier.  It does if modules require no others, hosts have
\* hash slots of their own, a script requires before it first waits, and the low
\* 16 bits of the time do not start again.  While the file is missing the first
\* require after a lifetime raises an error and the next returns the old module.
ModuleRight ==
  got.value \notin {None, True, Error} =>
    LET file == disk[got.key]
    IN  /\ got.value.of = got.key
        /\ got.value.v = Len(file) \/ got.key \in gone
             \/ file[Len(file)].at + 2 * TTL > clock

=============================================================================
