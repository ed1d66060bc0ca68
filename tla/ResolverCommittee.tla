------------------------- MODULE ResolverCommittee -------------------------
(***************************************************************************)
(* The governance part of the v1 contract, contracts/tholos/src/lib.rs:    *)
(* the admin, its two-step replacement, the resolver committee and the     *)
(* rotation vote by which the committee replaces one of its own members.   *)
(* The rest of the contract (module Tholos) reads the committee when a     *)
(* dispute opens and writes it when the deployment is initialized.         *)
(*                                                                         *)
(* As in TholosV2, one action is one successful call and a failing call is *)
(* no step.  A committee is the Vec of its members in order; the two vote  *)
(* lists of a rotation are sets, because the contract only asks for their  *)
(* members and lengths and never pushes an address twice.                  *)
(***************************************************************************)
EXTENDS Integers, Sequences, FiniteSets

CONSTANTS
  Address,              \* accounts
  NoAddress,            \* Option::None for an Address
  AdminKeys,            \* addresses that may hold the admin role
  MaxResolvers,         \* MAX_RESOLVERS
  CandidateCommittees,  \* arguments update_resolvers may be called with
  RotationTargets       \* new_resolver arguments of propose_rotation

ASSUME CommitteeAssumption ==
  /\ IsFiniteSet(Address) /\ NoAddress \notin Address
  /\ NoAddress \notin AdminKeys
  /\ MaxResolvers \in Nat
  /\ CandidateCommittees \subseteq Seq(Address)
  /\ RotationTargets \subseteq Address

VARIABLES
  admin,           \* DataKey::Admin
  admin_proposal,  \* DataKey::AdminRotationProposal
  resolvers,       \* DataKey::Resolvers; empty: not yet written
  rotation         \* DataKey::RotationProposal

adminVars == <<admin, admin_proposal>>
committeeVars == <<admin, admin_proposal, resolvers, rotation>>

Members(c) == {c[i] : i \in 1..Len(c)}

\* The checks initialize and update_resolvers make of a committee: odd,
\* bounded, without duplicates.
ValidCommittee(c) ==
  /\ Len(c) % 2 = 1 /\ Len(c) <= MaxResolvers
  /\ Cardinality(Members(c)) = Len(c)

MajorityThreshold(n) == (n \div 2) + 1

NoRotation ==
  [old_resolver |-> NoAddress, new_resolver |-> NoAddress,
   proposed_by |-> NoAddress, yes |-> {}, no |-> {}]
RotationProposal ==
  [old_resolver : Address, new_resolver : Address, proposed_by : Address,
   yes : SUBSET Address, no : SUBSET Address]

CommitteeInit ==
  /\ admin \in AdminKeys
  /\ admin_proposal = NoAddress
  /\ resolvers = <<>>
  /\ rotation = NoRotation

-----------------------------------------------------------------------------
(* The admin.                                                              *)

ProposeAdmin(caller, new_admin) ==
  /\ caller = admin
  /\ admin_proposal' = new_admin
  /\ UNCHANGED <<admin, resolvers, rotation>>

AcceptAdmin(caller) ==
  /\ admin_proposal # NoAddress
  /\ caller = admin_proposal
  /\ admin' = admin_proposal
  /\ admin_proposal' = NoAddress
  /\ UNCHANGED <<resolvers, rotation>>

\* What becomes of an open rotation when the admin replaces the committee.
KeepRotation == rotation  \* fault: the open proposal survives
AfterOverride == NoRotation

UpdateResolvers(caller, new_resolvers) ==
  /\ caller = admin
  /\ ValidCommittee(new_resolvers)
  /\ resolvers' = new_resolvers
  /\ rotation' = AfterOverride
  /\ UNCHANGED adminVars

\* The committee initialize writes; it leaves an open rotation alone.
InstallCommittee(caller, new_resolvers) ==
  /\ caller = admin
  /\ ValidCommittee(new_resolvers)
  /\ resolvers' = new_resolvers
  /\ UNCHANGED <<adminVars, rotation>>

-----------------------------------------------------------------------------
(* Rotation by vote of the committee.                                      *)

\* A rotation replaces a member by somebody who is not one.
ValidSwap(old, new) == old \in Members(resolvers) /\ new \notin Members(resolvers)

ProposeRotation(resolver, old, new) ==
  /\ resolver \in Members(resolvers)
  /\ rotation = NoRotation
  /\ ValidSwap(old, new)
  /\ rotation' = [NoRotation EXCEPT !.old_resolver = old, !.new_resolver = new,
                                    !.proposed_by = resolver]
  /\ UNCHANGED <<adminVars, resolvers>>

\* Members that have not voted yet.  The u32 subtraction traps below 0.
Remaining(r) == Len(resolvers) - Cardinality(r.yes) - Cardinality(r.no)

Passed(r) == Cardinality(r.yes) >= MajorityThreshold(Len(resolvers))

\* The yes-votes still possible cannot make a majority.
DeadIfRejected(r) ==  \* fault: only a unanimous no is dead
  Cardinality(r.no) = Len(resolvers)
Dead(r) ==
  Cardinality(r.yes) + Remaining(r) < MajorityThreshold(Len(resolvers))

Swapped(c, old, new) == [i \in 1..Len(c) |-> IF c[i] = old THEN new ELSE c[i]]

WithVote(r, resolver, approve) ==
  IF approve THEN [r EXCEPT !.yes = @ \cup {resolver}]
  ELSE [r EXCEPT !.no = @ \cup {resolver}]

MayVoteOnRotation(resolver) ==
  /\ rotation # NoRotation
  /\ resolver \in Members(resolvers)
  /\ resolver \notin rotation.yes \cup rotation.no

ExecuteRotation(r) ==
  /\ Passed(r)
  /\ resolvers' = Swapped(resolvers, r.old_resolver, r.new_resolver)
  /\ rotation' = NoRotation

RecordVote(r) ==
  /\ ~Passed(r)
  /\ Remaining(r) >= 0
  /\ rotation' = IF Dead(r) THEN NoRotation ELSE r
  /\ UNCHANGED resolvers

VoteRotation(resolver, approve) ==
  LET r == WithVote(rotation, resolver, approve) IN
  /\ MayVoteOnRotation(resolver)
  /\ ExecuteRotation(r) \/ RecordVote(r)
  /\ UNCHANGED adminVars

CancelRotation(resolver) ==
  /\ rotation # NoRotation
  /\ resolver \in Members(resolvers)
  /\ Remaining(rotation) >= 0
  /\ resolver = rotation.proposed_by \/ Dead(rotation)
  /\ rotation' = NoRotation
  /\ UNCHANGED <<adminVars, resolvers>>

CommitteeNext ==
  \/ \E k, n \in AdminKeys : ProposeAdmin(k, n)
  \/ \E k \in AdminKeys : AcceptAdmin(k)
  \/ \E k \in AdminKeys, c \in CandidateCommittees : UpdateResolvers(k, c)
  \/ \E a, o \in Address, n \in RotationTargets : ProposeRotation(a, o, n)
  \/ \E a \in Address, b \in BOOLEAN : VoteRotation(a, b)
  \/ \E a \in Address : CancelRotation(a)

-----------------------------------------------------------------------------
(* Properties, checked and proved for the whole contract in Tholos.        *)

CommitteeTypeOK ==
  /\ admin \in AdminKeys
  /\ admin_proposal \in AdminKeys \cup {NoAddress}
  /\ resolvers \in Seq(Address)
  /\ rotation \in RotationProposal \cup {NoRotation}

\* Once there is a committee it is an odd set of distinct members, so that a
\* majority of its votes exists and is unique.
CommitteeWellFormed == resolvers # <<>> => ValidCommittee(resolvers)

\* Through any sequence of overrides and rotations the committee stays well
\* formed, no rotation shrinking or merging it, and the open proposal fits the
\* committee it is voted on by: its target is a member, its replacement is
\* not, its votes are members' votes, one each, and it is neither decided nor
\* dead, so that its execution is always a swap of one member and the votes
\* of its electorate can still decide it.
RotationFitsCommittee ==
  /\ CommitteeWellFormed
  /\ rotation # NoRotation =>
       /\ rotation.old_resolver \in Members(resolvers)
       /\ rotation.new_resolver \notin Members(resolvers)
       /\ rotation.proposed_by \in Members(resolvers)
       /\ rotation.yes \cup rotation.no \subseteq Members(resolvers)
       /\ rotation.yes \cap rotation.no = {}
       /\ ~Passed(rotation) /\ ~Dead(rotation)
=============================================================================
