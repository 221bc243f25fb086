------------------------------ MODULE MCServices ------------------------------
(* The parts of the services, each in behaviours of its own.               *)
EXTENDS Services

Okta == INSTANCE OktaService
Clerk == INSTANCE ClerkService
Vercel == INSTANCE VercelService
GitHub == INSTANCE GitHubService
Slack == INSTANCE SlackService
Discord == INSTANCE DiscordService
Google == INSTANCE GoogleService
Atlas == INSTANCE MongoAtlasService
Resend == INSTANCE ResendService
SNS == INSTANCE SNSService
EventBridge == INSTANCE EventBridgeService
IAM == INSTANCE IAMService
KMS == INSTANCE KMSService
SSM == INSTANCE SSMService
CloudWatch == INSTANCE LogsService
DynamoDB == INSTANCE DynamoDBService

AllParts ==
  [oktaDirectory |-> Okta!Directory, oktaGroups |-> Okta!Groups,
   oktaApps |-> Okta!Applications, oktaServers |-> Okta!Servers,
   clerkUsers |-> Clerk!Users, clerkOrgs |-> Clerk!Organizations,
   vercelAccounts |-> Vercel!Accounts, vercelSettings |-> Vercel!Settings,
   vercelProtection |-> Vercel!Protection,
   vercelDeployments |-> Vercel!Deployments, vercelBuilds |-> Vercel!Builds,
   githubRepos |-> GitHub!Repos, githubIssues |-> GitHub!Issues,
   githubPulls |-> GitHub!Pulls, githubComments |-> GitHub!Comments,
   githubGit |-> GitHub!Git, githubMerges |-> GitHub!Merges,
   slackMessages |-> Slack!Messages, slackWorkspace |-> Slack!Workspace,
   discordChannels |-> Discord!Channels, discordWebhooks |-> Discord!Webhooks,
   discordRoles |-> Discord!Roles, discordMembers |-> Discord!Members,
   discordCommands |-> Discord!Commands,
   discordWorkspace |-> Discord!Workspace,
   googleMail |-> Google!Mail, googleLabels |-> Google!Labels,
   googleFilters |-> Google!Filters,
   googleCalendarsAndFiles |-> Google!CalendarsAndFiles,
   atlasAdministration |-> Atlas!Administration, atlasData |-> Atlas!Data,
   resend |-> Resend!Everything,
   awsTopics |-> SNS!Topics, awsBuses |-> EventBridge!Buses,
   awsPrincipals |-> IAM!Principals, awsKeys |-> KMS!Keys,
   awsParameters |-> SSM!Parameters, awsLogs |-> CloudWatch!Logs,
   awsTables |-> DynamoDB!Tables]
IdList == [n \in 1..20 |-> "r" \o ToString(n)] \o <<IAM!defaultAccessKeyID>>
Symmetry == Permutations(Procs) \cup Permutations(Names)
=============================================================================
