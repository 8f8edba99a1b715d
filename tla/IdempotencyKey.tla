---------------------------- MODULE IdempotencyKey ----------------------------
(***************************************************************************)
(* Where the idempotency key of a write comes from: a client may put it    *)
(* into the Idempotency-Key header, into the JSON body, or into both.  The *)
(* validation pipe looks at the body first, resolveIdempotencyKey of       *)
(* src/policies/policies.service.ts at both.                               *)
(*                                                                         *)
(* A text is [core, padded]: what trim() leaves of it, and whether there   *)
(* is white space around that.  Cores are classed by what the code tells   *)
(* apart: keys, the empty text, a text of more than 128 characters, and    *)
(* one with a character outside the pattern.                               *)
(***************************************************************************)
CONSTANTS Keys,             \* well-formed keys
          Absent, Empty, TooLong, Malformed

\* The classes do not overlap, and to give no text is to give none of them.
ASSUME ClassesAssumption ==
  /\ Keys \cap {Absent, Empty, TooLong, Malformed} = {}
  /\ Absent \notin {Empty, TooLong, Malformed}

Cores == Keys \cup {Empty, TooLong, Malformed}
Texts == [core : Cores, padded : BOOLEAN]

VARIABLES header,   \* the header, or Absent
          bodyKey,  \* idempotency_key of the body, or Absent
          outcome   \* what became of the request

keyVars == <<header, bodyKey, outcome>>

Rejected(error) == [status |-> 400, error |-> error]
Waiting         == [status |-> 0]
Resolved(key)   == [status |-> 200, key |-> key]

KeyInit == /\ header \in Texts \cup {Absent}
           /\ bodyKey \in Texts \cup {Absent}
           /\ outcome = Waiting

\* The decorators of idempotency_key in the two DTOs: they see the text with
\* its white space, which is outside the pattern.
BodyKeyValid(text) == \/ text = Absent
                      \/ text.core \in Keys /\ ~ text.padded

Trim(text) == IF text = Absent THEN Absent ELSE text.core

\* JavaScript: undefined and the empty string are falsy.
Truthy(value) == value \notin {Absent, Empty}

\* a ?? b
Coalesce(a, b) == IF a = Absent THEN b ELSE a

\* Mutant: the two places are not compared.
NoMismatch(a, b) == FALSE

Mismatch(a, b) == Truthy(a) /\ Truthy(b) /\ a # b

ResolveIdempotencyKey(headerText, bodyText) ==
  LET key == Coalesce(Trim(headerText), Trim(bodyText))
  IN  IF Mismatch(Trim(headerText), Trim(bodyText))
        THEN Rejected("Idempotency key mismatch")
      ELSE IF ~ Truthy(key) THEN Rejected("Missing idempotency key")
      ELSE IF key \in {TooLong, Malformed} THEN Rejected("Invalid idempotency key")
      ELSE Resolved(key)

Receive == /\ outcome = Waiting
           /\ outcome' = IF BodyKeyValid(bodyKey)
                         THEN ResolveIdempotencyKey(header, bodyKey)
                         ELSE Rejected("Bad Request")
           /\ UNCHANGED <<header, bodyKey>>

KeySpec == KeyInit /\ [][Receive]_keyVars
-----------------------------------------------------------------------------
Answered == outcome.status # 0

Accepted == Answered /\ outcome.status = 200

\* The keys a client wrote down, wherever it did.
Supplied == {Trim(header), Trim(bodyKey)} \ {Absent, Empty}

\* A write is never carried out under a key other than the one its client
\* meant: the resolved key is well formed and the only one the client supplied,
\* in whichever place (service.ts:49-76).
KeyIsTheClients == Accepted => /\ outcome.key \in Keys
                               /\ Supplied = {outcome.key}

\* policies.controller.ts:43, of the header: "Required unless idempotency_key
\* is supplied in the JSON body."  So a well-formed key in the body is enough
\* when the header supplies none.
BodyKeySuffices ==
  (/\ Answered
   /\ bodyKey # Absent
   /\ BodyKeyValid(bodyKey)
   /\ ~ Truthy(Trim(header)))
  => Accepted
=============================================================================
