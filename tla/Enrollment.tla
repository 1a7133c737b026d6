------------------------------ MODULE Enrollment ------------------------------
(***************************************************************************)
(* What onboarding promises, without handlers, channel, maker or faults: a  *)
(* user is registered, then linked to one account that nobody else has and  *)
(* that is never taken back, then settled in a home of that account; a      *)
(* settled user may be given another home but is never left without one.    *)
(***************************************************************************)
CONSTANTS UserIds, Accounts, Homes,
          HomesOf,       \* the homes that belong to an account
          NoAccount, NoHome

VARIABLES roll,      \* registered users
          account,   \* the account of every user
          home       \* the home of every user

EnrollmentVars == <<roll, account, home>>

EnrollmentInit ==
    /\ roll = {}
    /\ account = [u \in UserIds |-> NoAccount]
    /\ home = [u \in UserIds |-> NoHome]

Register(u) ==
    /\ u \notin roll
    /\ roll' = roll \cup {u}
    /\ UNCHANGED <<account, home>>

Link(u, a) ==
    /\ u \in roll
    /\ account[u] = NoAccount
    /\ \A v \in UserIds : account[v] # a
    /\ account' = [account EXCEPT ![u] = a]
    /\ UNCHANGED <<roll, home>>

Settle(u, h) ==
    /\ account[u] # NoAccount
    /\ h \in HomesOf[account[u]]
    /\ home' = [home EXCEPT ![u] = h]
    /\ UNCHANGED <<roll, account>>

EnrollmentNext ==
    \E u \in UserIds : \/ Register(u)
                       \/ \E a \in Accounts : Link(u, a)
                       \/ \E h \in Homes : Settle(u, h)

EnrollmentSpec == EnrollmentInit /\ [][EnrollmentNext]_EnrollmentVars
=============================================================================
