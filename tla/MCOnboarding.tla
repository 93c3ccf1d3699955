---------------------------- MODULE MCOnboarding ----------------------------
EXTENDS Onboarding

=============================================================================
