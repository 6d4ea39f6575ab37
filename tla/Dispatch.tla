------------------------------- MODULE Dispatch -------------------------------
(***************************************************************************)
(* What the program does with a message of each identity: the two maps     *)
(* generated into dan.hpp, the factory of modules, and the handlers the    *)
(* modules of mod/ register.  The content of a message plays no part: the  *)
(* handlers do not look at it.                                             *)
(***************************************************************************)
EXTENDS Integers

nameIdMap_ == [n \in {"lulu.ask_me", "lulu.tell_you", "rpc.hello", "rpc.hello_r"} |->
                 CASE n = "lulu.ask_me"   -> 257
                   [] n = "lulu.tell_you" -> 258
                   [] n = "rpc.hello"     -> 513
                   [] n = "rpc.hello_r"   -> 514]

idNameMap_ == [i \in {257, 258, 513, 514} |->
                 CASE i = 257 -> "lulu.ask_me"
                   [] i = 258 -> "lulu.tell_you"
                   [] i = 513 -> "rpc.hello"
                   [] i = 514 -> "rpc.hello_r"]

(* operator[]: what is not in the map is an empty name, the identity 0. *)
IdToName(id) == IF id \in DOMAIN idNameMap_ THEN idNameMap_[id] ELSE ""

NameToId(name) == IF name \in DOMAIN nameIdMap_ THEN nameIdMap_[name] ELSE 0

(* Protobuf finds a type of that name, or the null pointer procMsg uses. *)
Known(id) == IdToName(id) # ""

(* The modules, and the second identities each registers a handler for. *)
ModFactory(id) == CASE id \div 256 = 1 -> "mod_lulu"
                    [] id \div 256 = 2 -> "mod_rpc"
                    [] OTHER -> "nullptr"

msgMap_ == [mod_lulu |-> {1}, mod_rpc |-> {1}]

(* The handlers, as the name of the message each answers with. *)
do_ask_me == "lulu.tell_you"
rpc_hello == "rpc.hello_r"

(* Mutant of ReName: mod_rpc was copied from mod_lulu. *)
ReNameCopied(mod) == do_ask_me

(* The name of the answer of a module's only handler. *)
ReName(mod) == IF mod = "mod_lulu" THEN do_ask_me ELSE rpc_hello

(* A message is handled when its type is known and its module has a        *)
(* handler: calling the empty function that operator[] makes of a missing  *)
(* one throws, which nobody catches.                                       *)
Handled(id) == /\ Known(id)
               /\ ModFactory(id) # "nullptr"
               /\ id % 256 \in msgMap_[ModFactory(id)]

ReplyId(id) == NameToId(ReName(ModFactory(id)))

=============================================================================
