------------------------------ MODULE MCContacts ------------------------------
EXTENDS Contacts

CONSTANTS e1, e2, p1, none

MCEmails == {e1, e2}
MCPhones == {p1}
=============================================================================
